---- MODULE Spec2Model ----
(***************************************************************************)
(* Star-history ingestion service: job registry (JobTracker), background   *)
(* sync task (process_repo_stars_async), page fetcher, star store and      *)
(* webhook notification, modelled from                                     *)
(*   projects/databases/src/endpoints/github/repo_stars/update/index.rs    *)
(*   projects/databases/src/db/{repository,star}/queries.rs                *)
(*   interfaces/github/stargazers/src/index.rs                             *)
(***************************************************************************)
EXTENDS Integers, Sequences, FiniteSets, TLC

(***************************************************************************)
(* Bounds of the model.                                                    *)
(***************************************************************************)
\* number of POST /github/repo_stars/update requests that create a job
MaxJobs == 2
\* number of upstream pages of the multi-page repository
NumPages == 2
\* stargazers per full upstream page (100 upstream, scaled down)
PageSize == 2

JobIds == 1..MaxJobs

\* Option<T>
None == [some |-> FALSE]
Some(v) == [some |-> TRUE, value |-> v]

(***************************************************************************)
(* The upstream GitHub GraphQL API: a fixed sequence of pages per          *)
(* repository, ordered by starredAt ascending, with distinct logins.       *)
(***************************************************************************)
Owners == {"o1"}
Names == {"n1", "n2"}
WebhookUrls == {None, Some("http://hook")}

\* RepoQuery payloads the endpoint can receive
RepoQuery == [owner : Owners, name : Names, webhook_url : WebhookUrls]

\* ticks of the timestamp axis per calendar day
DayLen == 2

\* starredAt of the k-th stargazer: 2,3 (day 1), 6,7 (day 3), 10,11 (day 5)...
StarredAt(k) == 2 + (k - 1) + 2 * ((k - 1) \div 2)

\* number of pages the upstream serves for a repository; "n2" has no stars
UpstreamPageCount(owner, name) == IF name = "n1" THEN NumPages ELSE 1

\* edges of page p: full pages, then a last page with a single stargazer
UpstreamEdges(owner, name, p) ==
    IF name = "n1"
    THEN [i \in 1..(IF p < NumPages THEN PageSize ELSE 1) |->
            [starred_at |-> StarredAt((p - 1) * PageSize + i),
             node |-> [login |-> (p - 1) * PageSize + i]]]
    ELSE << >>

\* cursors are opaque tokens; the endCursor of page p is Some(p)
PageOfCursor(cursor) == IF cursor.some THEN cursor.value + 1 ELSE 1

\* the `data.repository.stargazers` object served for a cursor
UpstreamPage(owner, name, cursor) ==
    LET p == PageOfCursor(cursor) IN
    [stars |-> UpstreamEdges(owner, name, p),
     page_info |-> [has_next_page |-> p < UpstreamPageCount(owner, name),
                    end_cursor |-> IF UpstreamEdges(owner, name, p) = << >>
                                   THEN None ELSE Some(p)]]

\* HTTP statuses the upstream can answer with
HttpStatuses == {200, 502}

\* response bodies: a decodable page, `"repository": null`, or undecodable
ResponseBodies(owner, name, cursor) ==
    { [kind |-> "page", repository |-> UpstreamPage(owner, name, cursor)],
      [kind |-> "repository_null"],
      [kind |-> "malformed"] }

\* fetch_repo_stargazers: transport error, body read error, or Ok{body,status}
fetch_repo_stargazers(owner, name, cursor) ==
    { [ok |-> FALSE, err |-> "RequestSend: reqwest"],
      [ok |-> FALSE, err |-> "ResponseRead: reqwest"] }
    \cup
    { [ok |-> TRUE, status |-> s, body |-> b] :
        s \in HttpStatuses, b \in ResponseBodies(owner, name, cursor) }

\* fetch_chunk_of_stars_from_repo taking `"repository": null` for a
\* repository without stargazers
fetch_chunk_of_stars_from_repo_NullAsEmpty(owner, name, r) ==
    IF ~r.ok
    THEN [ok |-> FALSE, err |-> "FetchRepoStargazers: " \o r.err]
    ELSE IF r.body.kind = "malformed"
    THEN [ok |-> FALSE, err |-> "ResponseBodyDeserialization: serde_json"]
    ELSE IF r.body.kind = "repository_null"
    THEN [ok |-> TRUE,
          page |-> [stars |-> << >>,
                    page_info |-> [has_next_page |-> FALSE,
                                   end_cursor |-> None]]]
    ELSE [ok |-> TRUE, page |-> r.body.repository]

\* fetch_chunk_of_stars_from_repo applied to one upstream outcome; the
\* status is dropped by the `GitHubGraphQLResult { body, .. }` pattern
fetch_chunk_of_stars_from_repo(owner, name, r) ==
    IF ~r.ok
    THEN [ok |-> FALSE, err |-> "FetchRepoStargazers: " \o r.err]
    ELSE IF r.body.kind = "malformed"
    THEN [ok |-> FALSE, err |-> "ResponseBodyDeserialization: serde_json"]
    ELSE IF r.body.kind = "repository_null"
    THEN [ok |-> FALSE,
          err |-> "RepositoryNotFound: " \o owner \o "/" \o name]
    ELSE [ok |-> TRUE, page |-> r.body.repository]

(***************************************************************************)
(* State.                                                                  *)
(***************************************************************************)
VARIABLES
    tick,             \* how far the clock advances per read
    clock,            \* Utc::now()
    tracker,          \* JobTracker: HashMap<Uuid, JobStatus>
    task,             \* per job: the spawned task's position and locals
    repositories,     \* rows of table repositories
    stars,            \* rows of table stars
    trace,            \* per job: fetches, persists, reports, delays, errors
    webhooks,         \* per job: the spawned notification task
    response          \* the HTTP response of the request just served

vars == << tick, clock, tracker, task, repositories, stars,
           trace, webhooks, response >>

NoPage == [stars |-> << >>,
           page_info |-> [has_next_page |-> FALSE, end_cursor |-> None]]

\* locals of a task that is not inside process_repo_stars_async
NoLocals == [page |-> NoPage, info |-> NoPage.page_info, cursor |-> None,
             page_count |-> 0, repo_id |-> None, fetched_at |-> 0]

NoTask == [pc |-> "unspawned", q |-> None, result |-> None,
           locals |-> NoLocals]

NoWebhook == [state |-> "none", calls |-> 0, url |-> None,
              job_status |-> None]

NoResponse == [kind |-> "none"]

\* no job, empty tables, nothing served yet
InitState ==
    /\ tracker = << >>
    /\ task = [j \in JobIds |-> NoTask]
    /\ repositories = {}
    /\ stars = {}
    /\ trace = [j \in JobIds |-> << >>]
    /\ webhooks = [j \in JobIds |-> NoWebhook]
    /\ response = NoResponse

\* timestamps not tracked: every clock reading is the same instant
Init == InitState /\ clock = 0 /\ tick = 0

\* a logical clock: every reading is one later than the previous one.  The
\* service starts at instant 1, so that every page is fetched after its
\* stargazers starred (UpstreamIsPast) and the last stargazer of "n1" stars
\* while a sync that started at once is already running.
InitTimed == InitState /\ clock = 1 /\ tick = 1

\* Utc::now().naive_utc(): the reading after the clock advanced by `tick`
Now == clock + tick

\* one more entry in the history of a job
Log(j, e) == [trace EXCEPT ![j] = Append(@, e)]

\* an id generator that returns the same value at every call
NewJobId_NotFresh == CHOOSE j \in JobIds : \A k \in JobIds : j <= k

\* Uuid::new_v4(): a value no earlier call returned
NewJobId == CHOOSE j \in JobIds : j \notin DOMAIN tracker

(***************************************************************************)
(* POST /github/repo_stars/update                                          *)
(***************************************************************************)
\* GITHUB_TOKEN is not set: the request is refused before any job exists
handler_missing_token(input) ==
    /\ response' = [kind |-> "MissingGithubToken"]
    /\ UNCHANGED << tick, clock, tracker, task, repositories,
                    stars, trace, webhooks >>

\* the Pending record the handler stores
NewJobStatus(job_id, now) ==
    [id |-> job_id,
     status |-> "Pending",
     progress |-> [current_page |-> 0,
                   total_stars_processed |-> 0,
                   estimated_total_stars |-> None,
                   message |-> "Job queued"],
     created_at |-> now,
     updated_at |-> now,
     error |-> None]

\* handler running the first step of the sync itself before it answers
handler_StartsInline(input) ==
    /\ DOMAIN tracker # JobIds
    /\ LET job_id == NewJobId
           now == Now
       IN /\ clock' = now
          /\ tracker' = tracker @@ (job_id :>
                [NewJobStatus(job_id, now) EXCEPT
                    !.status = "Running",
                    !.progress.message = "Starting to fetch repository data"])
          /\ task' = [task EXCEPT ![job_id] =
                         [NoTask EXCEPT !.pc = "get_conn", !.q = Some(input)]]
          /\ trace' = Log(job_id,
                [ev |-> "created",
                 finished |-> { k \in DOMAIN tracker : task[k].pc = "done" }])
          /\ response' = [kind |-> "Accepted", job_id |-> job_id]
    /\ UNCHANGED << tick, repositories, stars, webhooks >>

\* lines 115-187: store the Pending record, spawn the task, answer 202
handler(input) ==
    /\ DOMAIN tracker # JobIds
    /\ LET job_id == NewJobId
           now == Now
       IN /\ clock' = now
          /\ tracker' = tracker @@ (job_id :> NewJobStatus(job_id, now))
          /\ task' = [task EXCEPT ![job_id] =
                         [NoTask EXCEPT !.pc = "start", !.q = Some(input)]]
          /\ trace' = Log(job_id,
                [ev |-> "created",
                 finished |-> { k \in DOMAIN tracker : task[k].pc = "done" }])
          /\ response' = [kind |-> "Accepted", job_id |-> job_id]
    /\ UNCHANGED << tick, repositories, stars, webhooks >>

(***************************************************************************)
(* GET /github/repo_stars/job_status/{job_id}                              *)
(***************************************************************************)
\* job_status_handler stamping the record it reads
job_status_handler_Touches(job_id) ==
    /\ response' = IF job_id \in DOMAIN tracker
                   THEN [kind |-> "Ok", job |-> tracker[job_id]]
                   ELSE [kind |-> "NotFound", job_id |-> job_id]
    /\ tracker' = IF job_id \in DOMAIN tracker
                  THEN [tracker EXCEPT ![job_id].updated_at = Now + 1]
                  ELSE tracker
    /\ UNCHANGED << tick, clock, task, repositories, stars, trace, webhooks >>

\* lines 191-201: a clone of the record under the lock, or 404
job_status_handler(job_id) ==
    /\ response' = IF job_id \in DOMAIN tracker
                   THEN [kind |-> "Ok", job |-> tracker[job_id]]
                   ELSE [kind |-> "NotFound", job_id |-> job_id]
    /\ UNCHANGED << tick, clock, tracker, task, repositories,
                    stars, trace, webhooks >>

(***************************************************************************)
(* The persistence layer.                                                  *)
(***************************************************************************)
\* pool.get(): a connection, or r2d2::Error
PoolGetOutcomes == {"conn", "r2d2"}

\* a repositories table that accepts a second row for an (owner, name)
UniqueOwnerName_NotEnforced == FALSE

\* the repositories table holds one row per (owner, name): a unique pair
UniqueOwnerName == TRUE

\* insert_repository: a plain INSERT ... RETURNING, no ON CONFLICT clause.
\* It fails on any diesel error, and always on an (owner, name) that
\* already has a row.
insert_repository(rows, new) ==
    { [ok |-> FALSE, rows |-> rows, err |-> "connection lost"] }
    \cup
    IF UniqueOwnerName
       /\ \E r \in rows : r.owner = new.owner /\ r.name = new.name
    THEN { [ok |-> FALSE, rows |-> rows, err |-> "duplicate key"] }
    ELSE { [ok |-> TRUE, rows |-> rows \cup {new}, repo |-> new,
            err |-> ""] }

\* get_repository_by_name: the rows `.first()` may return, None if no row
get_repository_by_name(rows, owner_val, name_val) ==
    LET found == { r \in rows : r.owner = owner_val /\ r.name = name_val }
    IN IF found = {} THEN {None} ELSE { Some(r) : r \in found }

\* the rows of a batch whose natural key (repository_id, stargazer) is
\* neither stored nor carried by an earlier row of the batch
FreshRows(rows, new_stars) ==
    { new_stars[i] : i \in
        { i \in 1..Len(new_stars) :
            /\ ~\E r \in rows :
                  /\ r.repository_id = new_stars[i].repository_id
                  /\ r.stargazer = new_stars[i].stargazer
            /\ ~\E k \in 1..(i - 1) :
                  /\ new_stars[k].repository_id = new_stars[i].repository_id
                  /\ new_stars[k].stargazer = new_stars[i].stargazer } }

\* insert_stars_batch: one statement, all rows or none; a row whose
\* natural key is already present is skipped
insert_stars_batch(rows, new_stars) ==
    { [ok |-> FALSE, rows |-> rows],
      [ok |-> TRUE, rows |-> rows \cup FreshRows(rows, new_stars)] }

\* upsert_stars_batch: build one NewStar per edge and insert the batch
upsert_stars_batch(rows, repo_id, edges, fetched_at) ==
    LET new_stars == [i \in 1..Len(edges) |->
                        [repository_id |-> repo_id,
                         stargazer |-> edges[i].node.login,
                         starred_at |-> edges[i].starred_at,
                         fetched_at |-> fetched_at]]
    IN insert_stars_batch(rows, new_stars)

\* DATE(starred_at)
Date(ts) == ts \div DayLen

\* get_daily_star_count: (date, count) per date with at least one star,
\* as a function from those dates
get_daily_star_count(rows, repo_id_val) ==
    LET mine == { r \in rows : r.repository_id = repo_id_val }
        dates == { Date(r.starred_at) : r \in mine }
    IN [d \in dates |->
           Cardinality({ r \in mine : Date(r.starred_at) = d })]

(***************************************************************************)
(* The background task: process_repo_stars_async, then the final update.   *)
(***************************************************************************)
\* an error that is swallowed: the failing step is tried again
ReturnErr_Retries(t, e) == t

\* `?`: the function returns Err(e); its locals are dropped
ReturnErr(t, e) ==
    [t EXCEPT !.pc = "finish",
              !.result = Some([ok |-> FALSE, err |-> e]),
              !.locals = NoLocals]

\* Ok(()) once the loop condition is false
ReturnOk(t) ==
    [t EXCEPT !.pc = "finish",
              !.result = Some([ok |-> TRUE]),
              !.locals = NoLocals]

\* the loop never entered: Ok(()) after the first page
LoopOrReturn_StopsEarly(t) == ReturnOk(t)

\* `while info.has_next_page`: enter the body or fall through to Ok(())
LoopOrReturn(t) ==
    IF t.locals.info.has_next_page
    THEN [t EXCEPT !.pc = "fetch_next"]
    ELSE ReturnOk(t)

\* SetRunning without the assignment of line 238
SetRunning_KeepsPending(j) ==
    /\ task[j].pc = "start"
    /\ IF j \in DOMAIN tracker
       THEN /\ clock' = Now
            /\ tracker' = [tracker EXCEPT
                  ![j].progress.message = "Starting to fetch repository data",
                  ![j].updated_at = Now]
       ELSE UNCHANGED << clock, tracker >>
    /\ task' = [task EXCEPT ![j].pc = "get_conn"]
    /\ response' = NoResponse
    /\ UNCHANGED << tick, repositories, stars, trace, webhooks >>

\* lines 234-242: mark the job Running
SetRunning(j) ==
    /\ task[j].pc = "start"
    /\ IF j \in DOMAIN tracker
       THEN /\ clock' = Now
            /\ tracker' = [tracker EXCEPT
                  ![j].status = "Running",
                  ![j].progress.message = "Starting to fetch repository data",
                  ![j].updated_at = Now]
       ELSE UNCHANGED << clock, tracker >>
    /\ task' = [task EXCEPT ![j].pc = "get_conn"]
    /\ response' = NoResponse
    /\ UNCHANGED << tick, repositories, stars, trace, webhooks >>

\* line 244: pool.get()?
GetConn(j) ==
    /\ task[j].pc = "get_conn"
    /\ \E o \in PoolGetOutcomes :
          IF o = "conn"
          THEN /\ task' = [task EXCEPT ![j].pc = "fetch_first"]
               /\ UNCHANGED trace
          ELSE /\ task' = [task EXCEPT ![j] =
                             ReturnErr(@, "GetConnectionFromPool: r2d2")]
               /\ trace' = Log(j, [ev |-> "pool", ok |-> FALSE])
    /\ response' = NoResponse
    /\ UNCHANGED << tick, clock, tracker, repositories, stars,
                    webhooks >>

\* one call of fetch_chunk_of_stars_from_repo by task record t with the
\* given cursor; on Ok the page is bound and the task moves to `next`
Fetch(j, t, cursor, page_no, next) ==
    LET q == t.q.value IN
    \E r \in fetch_repo_stargazers(q.owner, q.name, cursor) :
       LET res == fetch_chunk_of_stars_from_repo(q.owner, q.name, r) IN
       /\ trace' = Log(j, [ev |-> "fetch", page |-> page_no,
                           cursor |-> cursor, ok |-> res.ok,
                           reply |-> IF r.ok THEN r.body.kind ELSE "none",
                           err |-> IF res.ok THEN "" ELSE res.err,
                           page_info |-> IF res.ok THEN res.page.page_info
                                         ELSE NoPage.page_info])
       /\ task' = [task EXCEPT ![j] =
             IF res.ok
             THEN [t EXCEPT !.pc = next, !.locals.page = res.page]
             ELSE ReturnErr(t, "FetchChunkOfStarsFromRepo: " \o res.err)]

\* the request is sent and no response ever arrives: reqwest's Client::new()
\* sets no timeout, so `.send().await` never resolves
FetchHangs(j) ==
    /\ task[j].pc \in {"fetch_first", "fetch_next"}
    /\ LET l == task[j].locals IN
       trace' = Log(j, [ev |-> "fetch",
                        page |-> IF task[j].pc = "fetch_first" THEN 1
                                 ELSE l.page_count + 1,
                        cursor |-> l.cursor, ok |-> FALSE,
                        reply |-> "none", err |-> "",
                        page_info |-> NoPage.page_info])
    /\ task' = [task EXCEPT ![j].pc = "hung"]
    /\ response' = NoResponse
    /\ UNCHANGED << tick, clock, tracker, repositories, stars,
                    webhooks >>

\* line 247: the first page, cursor None
FetchFirst(j) ==
    /\ task[j].pc = "fetch_first"
    /\ Fetch(j, task[j], None, 1, "update_found")
    /\ response' = NoResponse
    /\ UNCHANGED << tick, clock, tracker, repositories, stars,
                    webhooks >>

\* lines 249-256: progress message after the first fetch
UpdateFound(j) ==
    /\ task[j].pc = "update_found"
    /\ IF j \in DOMAIN tracker
       THEN /\ clock' = Now
            /\ tracker' = [tracker EXCEPT
                  ![j].progress.message =
                      "Repository found, creating database entry",
                  ![j].updated_at = Now]
       ELSE UNCHANGED << clock, tracker >>
    /\ task' = [task EXCEPT ![j].pc = "insert_repo"]
    /\ response' = NoResponse
    /\ UNCHANGED << tick, repositories, stars, trace, webhooks >>

\* Uuid::new_v4() of line 259: one call per task, so the job's own number
\* stands for a value no other call returns
NewRepositoryId(j) == j

\* lines 258-267: insert the repository row, then read fetched_at
InsertRepository(j) ==
    /\ task[j].pc = "insert_repo"
    /\ LET q == task[j].q.value
           new_repo == [id |-> NewRepositoryId(j),
                        owner |-> q.owner, name |-> q.name]
       IN \E o \in insert_repository(repositories, new_repo) :
             /\ repositories' = o.rows
             /\ trace' = Log(j, [ev |-> "insert_repository", ok |-> o.ok,
                                 err |-> o.err,
                                 id |-> IF o.ok THEN Some(o.repo.id)
                                        ELSE None])
             /\ IF o.ok
                THEN /\ clock' = Now
                     /\ task' = [task EXCEPT
                           ![j].pc = "upsert_first",
                           ![j].locals.repo_id = Some(o.repo.id),
                           ![j].locals.fetched_at = Now]
                ELSE /\ UNCHANGED clock
                     /\ task' = [task EXCEPT ![j] = ReturnErr(@,
                           "InsertRepository: InsertRepository: " \o o.err)]
    /\ response' = NoResponse
    /\ UNCHANGED << tick, tracker, stars, webhooks >>

\* Upsert without the `?`: the run goes on after a failed batch
Upsert_IgnoresError(j, page_no, next) ==
    LET l == task[j].locals IN
    \E o \in upsert_stars_batch(stars, l.repo_id.value, l.page.stars,
                                l.fetched_at) :
       /\ stars' = o.rows
       /\ trace' = Log(j, [ev |-> "persist", page |-> page_no, ok |-> o.ok])
       /\ task' = [task EXCEPT ![j].pc = next]

\* one call of upsert_stars_batch for the page the task holds
Upsert(j, page_no, next) ==
    LET l == task[j].locals IN
    \E o \in upsert_stars_batch(stars, l.repo_id.value, l.page.stars,
                                l.fetched_at) :
       /\ stars' = o.rows
       /\ trace' = Log(j, [ev |-> "persist", page |-> page_no, ok |-> o.ok])
       /\ task' = [task EXCEPT ![j] =
             IF o.ok
             THEN [@ EXCEPT !.pc = next]
             ELSE ReturnErr(@, "UpsertStars: InsertStarsBatch: diesel")]

\* line 268
UpsertFirst(j) ==
    /\ task[j].pc = "upsert_first"
    /\ Upsert(j, 1, "report_first")
    /\ response' = NoResponse
    /\ UNCHANGED << tick, clock, tracker, repositories,
                    webhooks >>

\* ReportFirst without the assignment of line 282: the cursor stays None
ReportFirst_CursorUnset(j) ==
    /\ task[j].pc = "report_first"
    /\ LET first == task[j].locals.page
           n == Len(first.stars)
       IN
       /\ IF j \in DOMAIN tracker
          THEN /\ clock' = Now
               /\ tracker' = [tracker EXCEPT
                     ![j].progress.current_page = 1,
                     ![j].progress.total_stars_processed = n,
                     ![j].progress.message =
                         "Processed page 1, " \o ToString(Len(first.stars))
                            \o " stars so far",
                     ![j].updated_at = Now]
               /\ trace' = Log(j, [ev |-> "report", page |-> 1, total |-> n])
          ELSE UNCHANGED << clock, tracker, trace >>
       /\ task' = [task EXCEPT ![j] = LoopOrReturn(
                      [@ EXCEPT !.locals.info = first.page_info,
                                !.locals.page_count = 1])]
    /\ response' = NoResponse
    /\ UNCHANGED << tick, repositories, stars, webhooks >>

\* ReportFirst without the assignment of line 277
ReportFirst_NoTimestamp(j) ==
    /\ task[j].pc = "report_first"
    /\ LET first == task[j].locals.page
           n == Len(first.stars)
       IN
       /\ IF j \in DOMAIN tracker
          THEN /\ clock' = Now
               /\ tracker' = [tracker EXCEPT
                     ![j].progress.current_page = 1,
                     ![j].progress.total_stars_processed = n,
                     ![j].progress.message =
                         "Processed page 1, " \o ToString(Len(first.stars))
                            \o " stars so far"]
               /\ trace' = Log(j, [ev |-> "report", page |-> 1, total |-> n])
          ELSE UNCHANGED << clock, tracker, trace >>
       /\ task' = [task EXCEPT ![j] = LoopOrReturn(
                      [@ EXCEPT !.locals.info = first.page_info,
                                !.locals.cursor = first.page_info.end_cursor,
                                !.locals.page_count = 1])]
    /\ response' = NoResponse
    /\ UNCHANGED << tick, repositories, stars, webhooks >>

\* lines 270-283: report page 1, bind info, cursor and page_count, then
\* test the loop condition.  The u32 counters stay far below 2^32 (at most
\* NumPages pages of PageSize stars), so they are plain naturals here.
ReportFirst(j) ==
    /\ task[j].pc = "report_first"
    /\ LET first == task[j].locals.page
           n == Len(first.stars)
       IN
       /\ IF j \in DOMAIN tracker
          THEN /\ clock' = Now
               /\ tracker' = [tracker EXCEPT
                     ![j].progress.current_page = 1,
                     ![j].progress.total_stars_processed = n,
                     ![j].progress.message =
                         "Processed page 1, " \o ToString(Len(first.stars))
                            \o " stars so far",
                     ![j].updated_at = Now]
               /\ trace' = Log(j, [ev |-> "report", page |-> 1, total |-> n])
          ELSE UNCHANGED << clock, tracker, trace >>
       /\ task' = [task EXCEPT ![j] = LoopOrReturn(
                      [@ EXCEPT !.locals.info = first.page_info,
                                !.locals.cursor = first.page_info.end_cursor,
                                !.locals.page_count = 1])]
    /\ response' = NoResponse
    /\ UNCHANGED << tick, repositories, stars, webhooks >>

\* FetchNext without `page_count += 1`
FetchNext_NoIncrement(j) ==
    /\ task[j].pc = "fetch_next"
    /\ Fetch(j, task[j], task[j].locals.cursor, task[j].locals.page_count,
             "upsert_next")
    /\ response' = NoResponse
    /\ UNCHANGED << tick, clock, tracker, repositories, stars,
                    webhooks >>

\* lines 286-288: page_count += 1, then fetch with the held cursor
FetchNext(j) ==
    /\ task[j].pc = "fetch_next"
    /\ LET n == task[j].locals.page_count + 1 IN
       Fetch(j, [task[j] EXCEPT !.locals.page_count = n],
             task[j].locals.cursor, n, "upsert_next")
    /\ response' = NoResponse
    /\ UNCHANGED << tick, clock, tracker, repositories, stars,
                    webhooks >>

\* line 289
UpsertNext(j) ==
    /\ task[j].pc = "upsert_next"
    /\ Upsert(j, task[j].locals.page_count, "report_next")
    /\ response' = NoResponse
    /\ UNCHANGED << tick, clock, tracker, repositories,
                    webhooks >>

\* ReportNext with `=` for `+=` on total_stars_processed
ReportNext_Overwrites(j) ==
    /\ task[j].pc = "report_next"
    /\ LET page == task[j].locals.page
           page_count == task[j].locals.page_count
       IN
       /\ IF j \in DOMAIN tracker
          THEN LET total == Len(page.stars)
               IN /\ clock' = Now
                  /\ tracker' = [tracker EXCEPT
                        ![j].progress.current_page = page_count,
                        ![j].progress.total_stars_processed = total,
                        ![j].progress.message =
                            "Processed page " \o ToString(page_count) \o ", "
                               \o ToString(total) \o " stars total",
                        ![j].updated_at = Now]
                  /\ trace' = Log(j, [ev |-> "report", page |-> page_count,
                                      total |-> total])
          ELSE UNCHANGED << clock, tracker, trace >>
       /\ task' = [task EXCEPT
             ![j].pc = "sleep",
             ![j].locals.info = page.page_info,
             ![j].locals.cursor = page.page_info.end_cursor]
    /\ response' = NoResponse
    /\ UNCHANGED << tick, repositories, stars, webhooks >>

\* the report of a page whose lock guard is still alive during the pause
ReportNext_DelaysUnderLock(j) ==
    /\ task[j].pc = "report_next"
    /\ j \in DOMAIN tracker
    /\ LET page == task[j].locals.page
           page_count == task[j].locals.page_count
           total == tracker[j].progress.total_stars_processed
                       + Len(page.stars)
       IN /\ clock' = Now
          /\ tracker' = [tracker EXCEPT
                ![j].progress.current_page = page_count,
                ![j].progress.total_stars_processed = total,
                ![j].progress.message =
                    "Processed page " \o ToString(page_count) \o ", "
                       \o ToString(total) \o " stars total",
                ![j].updated_at = Now]
          /\ trace' = [trace EXCEPT ![j] =
                Append(Append(@, [ev |-> "report", page |-> page_count,
                                  total |-> total]),
                       [ev |-> "delay", page |-> page_count])]
          /\ task' = [task EXCEPT ![j] = LoopOrReturn(
                [@ EXCEPT !.locals.info = page.page_info,
                          !.locals.cursor = page.page_info.end_cursor])]
    /\ response' = NoResponse
    /\ UNCHANGED << tick, repositories, stars, webhooks >>

\* lines 291-307: report the page, then advance info and cursor
ReportNext(j) ==
    /\ task[j].pc = "report_next"
    /\ LET page == task[j].locals.page
           page_count == task[j].locals.page_count
       IN
       /\ IF j \in DOMAIN tracker
          THEN LET total == tracker[j].progress.total_stars_processed
                               + Len(page.stars)
               IN /\ clock' = Now
                  /\ tracker' = [tracker EXCEPT
                        ![j].progress.current_page = page_count,
                        ![j].progress.total_stars_processed = total,
                        ![j].progress.message =
                            "Processed page " \o ToString(page_count) \o ", "
                               \o ToString(total) \o " stars total",
                        ![j].updated_at = Now]
                  /\ trace' = Log(j, [ev |-> "report", page |-> page_count,
                                      total |-> total])
          ELSE UNCHANGED << clock, tracker, trace >>
       /\ task' = [task EXCEPT
             ![j].pc = "sleep",
             ![j].locals.info = page.page_info,
             ![j].locals.cursor = page.page_info.end_cursor]
    /\ response' = NoResponse
    /\ UNCHANGED << tick, repositories, stars, webhooks >>

\* line 310: the 100 ms pause closing every iteration of the loop body,
\* then the loop condition
Sleep(j) ==
    /\ task[j].pc = "sleep"
    /\ trace' = Log(j, [ev |-> "delay", page |-> task[j].locals.page_count])
    /\ task' = [task EXCEPT ![j] = LoopOrReturn(@)]
    /\ response' = NoResponse
    /\ UNCHANGED << tick, clock, tracker, repositories, stars,
                    webhooks >>

\* FinalStatus without the assignment of line 164
FinalStatus_NoError(job, result, now) ==
    IF result.ok
    THEN [job EXCEPT !.status = "Completed",
                     !.progress.message = "All stars processed successfully",
                     !.updated_at = now]
    ELSE [job EXCEPT !.status = "Failed",
                     !.progress.message = "Processing failed",
                     !.updated_at = now]

\* FinalStatus clearing the progress counters of a failed job
FinalStatus_ResetsProgress(job, result, now) ==
    IF result.ok
    THEN [job EXCEPT !.status = "Completed",
                     !.progress.message = "All stars processed successfully",
                     !.updated_at = now]
    ELSE [job EXCEPT !.status = "Failed",
                     !.error = Some(result.err),
                     !.progress.current_page = 0,
                     !.progress.total_stars_processed = 0,
                     !.progress.message = "Processing failed",
                     !.updated_at = now]

\* lines 157-168: the terminal record for a result
FinalStatus(job, result, now) ==
    IF result.ok
    THEN [job EXCEPT !.status = "Completed",
                     !.progress.message = "All stars processed successfully",
                     !.updated_at = now]
    ELSE [job EXCEPT !.status = "Failed",
                     !.error = Some(result.err),
                     !.progress.message = "Processing failed",
                     !.updated_at = now]

\* Finish cloning the record for the webhook before the final update
Finish_ClonesEarly(j) ==
    /\ task[j].pc = "finish"
    /\ IF j \in DOMAIN tracker
       THEN LET job == FinalStatus(tracker[j], task[j].result.value, Now)
                webhook_url == task[j].q.value.webhook_url
            IN /\ clock' = Now
               /\ tracker' = [tracker EXCEPT ![j] = job]
               /\ webhooks' =
                     IF webhook_url.some
                     THEN [webhooks EXCEPT ![j] =
                             [state |-> "spawned", calls |-> @.calls,
                              url |-> webhook_url,
                              job_status |-> Some(tracker[j])]]
                     ELSE webhooks
       ELSE UNCHANGED << clock, tracker, webhooks >>
    /\ task' = [task EXCEPT ![j].pc = "done"]
    /\ response' = NoResponse
    /\ UNCHANGED << tick, repositories, stars, trace >>

\* Finish run again by a retry path: the task stays at the final update
Finish_Retried(j) ==
    /\ task[j].pc = "finish"
    /\ IF j \in DOMAIN tracker
       THEN LET job == FinalStatus(tracker[j], task[j].result.value, Now)
                webhook_url == task[j].q.value.webhook_url
            IN /\ clock' = Now
               /\ tracker' = [tracker EXCEPT ![j] = job]
               /\ webhooks' =
                     IF webhook_url.some
                     THEN [webhooks EXCEPT ![j] =
                             [state |-> "spawned", calls |-> @.calls,
                              url |-> webhook_url, job_status |-> Some(job)]]
                     ELSE webhooks
       ELSE UNCHANGED << clock, tracker, webhooks >>
    /\ \E again \in BOOLEAN :
          task' = [task EXCEPT ![j].pc = IF again THEN "finish" ELSE "done"]
    /\ response' = NoResponse
    /\ UNCHANGED << tick, repositories, stars, trace >>

\* Finish spawning the notification whether or not a URL was given
Finish_AlwaysNotifies(j) ==
    /\ task[j].pc = "finish"
    /\ IF j \in DOMAIN tracker
       THEN LET job == FinalStatus(tracker[j], task[j].result.value, Now)
                webhook_url == task[j].q.value.webhook_url
            IN /\ clock' = Now
               /\ tracker' = [tracker EXCEPT ![j] = job]
               /\ webhooks' = [webhooks EXCEPT ![j] =
                                 [state |-> "spawned", calls |-> @.calls,
                                  url |-> webhook_url,
                                  job_status |-> Some(job)]]
       ELSE UNCHANGED << clock, tracker, webhooks >>
    /\ task' = [task EXCEPT ![j].pc = "done"]
    /\ response' = NoResponse
    /\ UNCHANGED << tick, repositories, stars, trace >>

\* a final update that drops the record of the finished job
Finish_ForgetsJob(j) ==
    /\ task[j].pc = "finish"
    /\ tracker' = [k \in DOMAIN tracker \ {j} |-> tracker[k]]
    /\ task' = [task EXCEPT ![j].pc = "done"]
    /\ response' = NoResponse
    /\ UNCHANGED << tick, clock, repositories, stars, trace, webhooks >>

\* lines 154-178: final status, then spawn the webhook task if a URL is set
Finish(j) ==
    /\ task[j].pc = "finish"
    /\ IF j \in DOMAIN tracker
       THEN LET job == FinalStatus(tracker[j], task[j].result.value,
                                   Now)
                webhook_url == task[j].q.value.webhook_url
            IN /\ clock' = Now
               /\ tracker' = [tracker EXCEPT ![j] = job]
               /\ webhooks' =
                     IF webhook_url.some
                     THEN [webhooks EXCEPT ![j] =
                             [state |-> "spawned", calls |-> @.calls,
                              url |-> webhook_url, job_status |-> Some(job)]]
                     ELSE webhooks
       ELSE UNCHANGED << clock, tracker, webhooks >>
    /\ task' = [task EXCEPT ![j].pc = "done"]
    /\ response' = NoResponse
    /\ UNCHANGED << tick, repositories, stars, trace >>

\* what the POST to the webhook URL can come to
WebhookOutcomes == {"success", "non_success_status", "send_error"}

\* send_webhook_notification posting a second time after a delivery that
\* did not succeed
send_webhook_notification_Retries(j) ==
    /\ webhooks[j].state = "spawned"
    /\ \E o \in WebhookOutcomes :
          webhooks' = [webhooks EXCEPT
                         ![j].state = IF o # "success" /\ webhooks[j].calls = 0
                                      THEN "spawned" ELSE o,
                         ![j].calls = @ + 1]
    /\ response' = NoResponse
    /\ UNCHANGED << tick, clock, tracker, task, repositories,
                    stars, trace >>

\* lines 395-425: one POST of the snapshot; every outcome is only logged
send_webhook_notification(j) ==
    /\ webhooks[j].state = "spawned"
    /\ \E o \in WebhookOutcomes :
          webhooks' = [webhooks EXCEPT ![j].state = o,
                                       ![j].calls = @ + 1]
    /\ response' = NoResponse
    /\ UNCHANGED << tick, clock, tracker, task, repositories,
                    stars, trace >>

(***************************************************************************)
(* The system.                                                             *)
(***************************************************************************)
TaskStep(j) ==
    \/ SetRunning(j)
    \/ GetConn(j)
    \/ FetchFirst(j)
    \/ FetchHangs(j)
    \/ UpdateFound(j)
    \/ InsertRepository(j)
    \/ UpsertFirst(j)
    \/ ReportFirst(j)
    \/ FetchNext(j)
    \/ UpsertNext(j)
    \/ ReportNext(j)
    \/ Sleep(j)
    \/ Finish(j)

Next ==
    \/ \E input \in RepoQuery : handler(input)
    \/ \E input \in RepoQuery : handler_missing_token(input)
    \/ \E job_id \in JobIds : job_status_handler(job_id)
    \/ \E j \in JobIds : TaskStep(j)
    \/ \E j \in JobIds : send_webhook_notification(j)

Spec == Init /\ [][Next]_vars

\* the jobs and their tasks alone; the requests that create no job read no
\* clock and write no job
NextJobs ==
    \/ \E input \in RepoQuery : handler(input)
    \/ \E j \in JobIds : TaskStep(j)
    \/ \E j \in JobIds : send_webhook_notification(j)

SpecTimed == InitTimed /\ [][NextJobs]_vars

\* the tokio runtime polls every task that is ready: a task that can take a
\* step eventually takes one
Fairness ==
    \A j \in JobIds :
       /\ WF_vars(TaskStep(j))
       /\ WF_vars(send_webhook_notification(j))

SpecFair == Init /\ [][NextJobs]_vars /\ Fairness

(***************************************************************************)
(* The analytics request: read_daily_graph over utils/data_processing.     *)
(* A NaiveDate is the number of its day, a Vec<(NaiveDate, i64)> is a      *)
(* sequence of pairs, and a value is an integer: the f64 of the source     *)
(* holds every count of the model exactly.                                 *)
(***************************************************************************)
\* the last day on which a stored star was given
MaxDay == 3

\* the most stars one repository is given on one day
MaxCount == 2

Days == 0..MaxDay

\* NaiveDate::MAX (262142-12-31) as a day number: some 95 million days
\* after the days of stored stars
NaiveDate_MAX == 95000000

\* NaiveDate::succ_opt: the next day, None after the last representable day
succ_opt(date) == IF date < NaiveDate_MAX THEN Some(date + 1) ELSE None

\* Option::unwrap_or
unwrap_or(opt, default) == IF opt.some THEN opt.value ELSE default

\* ORDER BY DATE(starred_at): the rows of get_daily_star_count, ascending
RECURSIVE OrderByDate(_)
OrderByDate(counts) ==
    IF DOMAIN counts = {}
    THEN << >>
    ELSE LET first == CHOOSE d \in DOMAIN counts :
                         \A o \in DOMAIN counts : d <= o
         IN << <<first, counts[first]>> >>
            \o OrderByDate([d \in DOMAIN counts \ {first} |-> counts[d]])

\* daily_counts.iter().cloned().collect::<HashMap>(): a later pair of a date
\* replaces an earlier one
CollectMap(daily_counts) ==
    [d \in { daily_counts[i][1] : i \in 1..Len(daily_counts) } |->
        LET last == CHOOSE i \in 1..Len(daily_counts) :
                       /\ daily_counts[i][1] = d
                       /\ \A k \in (i + 1)..Len(daily_counts) :
                             daily_counts[k][1] # d
        IN daily_counts[last][2]]

\* a call that returns value
Returns(value) == [returns |-> TRUE, value |-> value]

\* a call that never returns: the loop of fill_missing_days cannot advance
\* and pushes (current_date, 0) until memory is exhausted
Diverges == [returns |-> FALSE]

\* the while loop of fill_missing_days
RECURSIVE fill_missing_days_loop(_, _, _, _)
fill_missing_days_loop(data_map, current_date, end_date, result) ==
    IF current_date <= end_date
    THEN LET count == IF current_date \in DOMAIN data_map
                      THEN data_map[current_date] ELSE 0
             next_date == unwrap_or(succ_opt(current_date), current_date)
         IN IF next_date = current_date
            THEN Diverges
            ELSE fill_missing_days_loop(
                    [d \in DOMAIN data_map \ {current_date} |-> data_map[d]],
                    next_date, end_date,
                    Append(result, <<current_date, count>>))
    ELSE Returns(result)

fill_missing_days_NoFill(daily_counts) == Returns(daily_counts)

\* fill_missing_days: one pair per day from the first to the last date
fill_missing_days(daily_counts) ==
    IF daily_counts = << >>
    THEN Returns(<< >>)
    ELSE fill_missing_days_loop(CollectMap(daily_counts),
                                daily_counts[1][1],
                                daily_counts[Len(daily_counts)][1],
                                << >>)

DataPoint(date, value, relative_days) ==
    [date |-> date, value |-> value, relative_days |-> relative_days]

\* the running total of the first n counts
RECURSIVE Cumulative(_, _)
Cumulative(daily_counts, n) ==
    IF n = 0 THEN 0
    ELSE Cumulative(daily_counts, n - 1) + daily_counts[n][2]

calculate_position_data_Daily(daily_counts) ==
    Returns([i \in 1..Len(daily_counts) |->
               DataPoint(daily_counts[i][1], daily_counts[i][2], None)])

\* calculate_position_data: cumulative count at each input date
calculate_position_data(daily_counts) ==
    Returns([i \in 1..Len(daily_counts) |->
               DataPoint(daily_counts[i][1], Cumulative(daily_counts, i),
                         None)])

\* calculate_speed_data: the gap-filled daily counts
calculate_speed_data(daily_counts) ==
    LET Speed(filled) ==
            LET filled_data == filled.value
            IN IF ~filled.returns
               THEN Diverges
               ELSE Returns([i \in 1..Len(filled_data) |->
                               DataPoint(filled_data[i][1],
                                         filled_data[i][2], None)])
    IN Speed(fill_missing_days(daily_counts))

calculate_acceleration_data_FirstIsCount(daily_counts) ==
    LET Acceleration(filled) ==
            LET filled_data == filled.value
            IN IF ~filled.returns
               THEN Diverges
               ELSE Returns([i \in 1..Len(filled_data) |->
                               DataPoint(filled_data[i][1],
                                         IF i = 1 THEN filled_data[1][2]
                                         ELSE filled_data[i][2]
                                              - filled_data[i - 1][2],
                                         None)])
    IN Acceleration(fill_missing_days(daily_counts))

\* calculate_acceleration_data: change of the gap-filled daily count
calculate_acceleration_data(daily_counts) ==
    LET Acceleration(filled) ==
            LET filled_data == filled.value
            IN IF ~filled.returns
               THEN Diverges
               ELSE IF Len(filled_data) < 2
               THEN Returns([i \in 1..Len(filled_data) |->
                               DataPoint(filled_data[i][1], 0, None)])
               ELSE Returns([i \in 1..Len(filled_data) |->
                               DataPoint(filled_data[i][1],
                                         IF i = 1 THEN 0
                                         ELSE filled_data[i][2]
                                              - filled_data[i - 1][2],
                                         None)])
    IN Acceleration(fill_missing_days(daily_counts))

apply_relative_time_transformation_OwnStart(data_points, start_date) ==
    [i \in 1..Len(data_points) |->
        LET days_from_start == data_points[i].date - data_points[1].date
        IN DataPoint(data_points[i].date, data_points[i].value,
                     Some(days_from_start))]

\* apply_relative_time_transformation: days counted from start_date
apply_relative_time_transformation(data_points, start_date) ==
    [i \in 1..Len(data_points) |->
        LET days_from_start == data_points[i].date - start_date
        IN DataPoint(start_date + days_from_start, data_points[i].value,
                     Some(days_from_start))]

\* process_single_repo_data: the data points, if the calculation returns
process_single_repo_data(daily_counts, metric_type, relative_start_date) ==
    IF daily_counts = << >>
    THEN Returns(<< >>)
    ELSE LET Transformed(calculated) ==
                LET data_points == calculated.value
                IN IF ~calculated.returns
                   THEN Diverges
                   ELSE IF relative_start_date.some
                   THEN Returns(apply_relative_time_transformation(
                                   data_points, relative_start_date.value))
                   ELSE Returns(data_points)
         IN Transformed(CASE metric_type = "Position" ->
                               calculate_position_data(daily_counts)
                          [] metric_type = "Speed" ->
                               calculate_speed_data(daily_counts)
                          [] metric_type = "Acceleration" ->
                               calculate_acceleration_data(daily_counts))

\* the dates of all data points of a list of RepositoryData
PointDates(repos) ==
    UNION { { repos[i].data_points[k].date :
                k \in 1..Len(repos[i].data_points) } : i \in 1..Len(repos) }

Min(S) == CHOOSE x \in S : \A y \in S : x <= y
Max(S) == CHOOSE x \in S : \A y \in S : y <= x

\* calculate_time_axis
calculate_time_axis(repos, relative_x_axis) ==
    IF repos = << >>
    THEN [ok |-> FALSE, err |-> "No repository data provided"]
    ELSE IF PointDates(repos) = {}
    THEN [ok |-> FALSE, err |-> "No data points found"]
    ELSE IF relative_x_axis
    THEN [ok |-> TRUE,
          value |-> [kind |-> "Relative",
                     max_days |-> Max(PointDates(repos))
                                  - Min(PointDates(repos)),
                     start_date |-> Min(PointDates(repos))]]
    ELSE [ok |-> TRUE,
          value |-> [kind |-> "Absolute",
                     min_date |-> Min(PointDates(repos)),
                     max_date |-> Max(PointDates(repos))]]

\* the first dates of the repositories that have data
FirstDates(repo_data) ==
    { repo_data[i].daily_counts[1][1] :
        i \in { i \in 1..Len(repo_data) : repo_data[i].daily_counts # << >> } }

\* the earliest first date over all repositories of the request that have
\* data; None in absolute mode
earliest_date(repo_data, relative_x_axis) ==
    IF relative_x_axis /\ FirstDates(repo_data) # {}
    THEN Some(Min(FirstDates(repo_data)))
    ELSE None

\* one pass of the loop over metric_types: it does not return if the
\* calculation for one of the repositories does not
ProcessMetric(repo_data, metric_type, relative_x_axis) ==
    LET Processed(calculated, start_date) ==
            LET processed_repos ==
                    [i \in 1..Len(repo_data) |->
                        [owner |-> repo_data[i].owner,
                         name |-> repo_data[i].name,
                         data_points |-> calculated[i].value]]
                WithAxis(time_axis) ==
                    IF time_axis.ok
                    THEN Returns([ok |-> TRUE,
                                  value |-> [repositories |-> processed_repos,
                                             time_axis |-> time_axis.value,
                                             metric_type |-> metric_type,
                                             start_date |-> start_date]])
                    ELSE Returns([ok |-> FALSE, err |-> time_axis.err])
            IN IF \E i \in 1..Len(repo_data) : ~calculated[i].returns
               THEN Diverges
               ELSE WithAxis(calculate_time_axis(processed_repos,
                                                 relative_x_axis))
        Calculated(start_date) ==
            Processed([i \in 1..Len(repo_data) |->
                          process_single_repo_data(
                              repo_data[i].daily_counts, metric_type,
                              start_date)],
                      start_date)
    IN Calculated(earliest_date(repo_data, relative_x_axis))

\* process_multi_repo_data: Ok(one ProcessedMultiRepoData per metric), or
\* what the first metric that does not come through does: Err, or no return
process_multi_repo_data(repo_data, metric_types, relative_x_axis) ==
    IF repo_data = << >>
    THEN Returns([ok |-> TRUE, value |-> << >>])
    ELSE LET Collected(results) ==
                LET stopped ==
                        { m \in 1..Len(metric_types) :
                            ~results[m].returns \/ ~results[m].value.ok }
                IN IF stopped = {}
                   THEN Returns([ok |-> TRUE,
                                 value |-> [m \in 1..Len(metric_types) |->
                                               results[m].value.value]])
                   ELSE IF ~results[Min(stopped)].returns
                   THEN Diverges
                   ELSE Returns([ok |-> FALSE,
                                 err |-> results[Min(stopped)].value.err])
         IN Collected([m \in 1..Len(metric_types) |->
                          ProcessMetric(repo_data, metric_types[m],
                                        relative_x_axis)])

\* RepositorySpec
RepositorySpecs == [owner : Owners, name : Names]

\* the most repositories one request may name
MaxRepositoriesPerRequest == 10

\* the longest list of repositories a request of the model names, each
\* named once, short of the one list that is too long
MaxRequested == 2

RepositoryLists ==
    { list \in UNION { [1..n -> RepositorySpecs] : n \in 0..MaxRequested } :
         \A i, k \in 1..Len(list) : list[i] = list[k] => i = k }
    \cup { [i \in 1..(MaxRepositoriesPerRequest + 1) |->
              [owner |-> "o1", name |-> "n1"]] }

\* the metric_types of a request: absent (the serde default), each metric,
\* all three with mixed case and a repeated metric, an unknown name
MetricLists ==
    { <<"position">>, <<"speed">>, <<"acceleration">>, << >>,
      <<"Speed", "speed", "position", "acceleration">>,
      <<"position", "velocity">> }

\* RepoStarsReadDailyGraphRequestBody; chart_config only styles the chart
GraphRequests ==
    [repositories : RepositoryLists, metric_types : MetricLists,
     relative_x_axis : BOOLEAN]

\* str::to_lowercase on the metric names of the model
to_lowercase(s) == IF s = "Speed" THEN "speed" ELSE s

RECURSIVE parse_metric_types_loop(_, _, _)
parse_metric_types_loop(metric_strings, i, metric_types) ==
    IF i > Len(metric_strings)
    THEN [ok |-> TRUE, value |-> metric_types]
    ELSE LET metric_str == to_lowercase(metric_strings[i])
         IN IF metric_str \notin {"position", "speed", "acceleration"}
            THEN [ok |-> FALSE,
                  err |-> "Invalid metric type: '" \o metric_strings[i]
                          \o "'. Valid types are: position, speed, "
                          \o "acceleration"]
            ELSE LET metric_type ==
                        CASE metric_str = "position" -> "Position"
                          [] metric_str = "speed" -> "Speed"
                          [] metric_str = "acceleration" -> "Acceleration"
                 IN parse_metric_types_loop(
                       metric_strings, i + 1,
                       IF \E k \in 1..Len(metric_types) :
                             metric_types[k] = metric_type
                       THEN metric_types
                       ELSE Append(metric_types, metric_type))

parse_metric_types_SkipsUnknown(metric_strings) ==
    parse_metric_types_loop(
        SelectSeq(metric_strings,
                  LAMBDA m : to_lowercase(m) \in
                                {"position", "speed", "acceleration"}),
        1, << >>)

\* parse_metric_types: the metrics in request order, each once
parse_metric_types(metric_strings) ==
    IF metric_strings = << >>
    THEN [ok |-> TRUE, value |-> <<"Position">>]
    ELSE parse_metric_types_loop(metric_strings, 1, << >>)

\* HandlerError::into_response
ErrorResponse(kind, status, message) ==
    [kind |-> kind, status |-> status, message |-> message]

\* the request whose handler never returns
NeverAnswered == [kind |-> "NeverAnswered"]

\* the loop over input.repositories: every way it can end, with the
\* repo_data collected or with the response of the first failing query
RECURSIVE LoadRepoData(_, _, _, _, _)
LoadRepoData(repo_rows, star_rows, specs, i, repo_data) ==
    IF i > Len(specs)
    THEN { [ok |-> TRUE, repo_data |-> repo_data] }
    ELSE { [ok |-> FALSE,
            response |-> ErrorResponse("GetRepositoryByName", 500,
                                       "diesel")] }
         \cup UNION {
            IF ~repo.some
            THEN { [ok |-> FALSE,
                    response |-> ErrorResponse(
                        "RepositoryNotFound", 404,
                        "Repository " \o specs[i].owner \o "/"
                        \o specs[i].name \o " not found in database")] }
            ELSE { [ok |-> FALSE,
                    response |-> ErrorResponse("GetDailyStarCount", 500,
                                               "diesel")] }
                 \cup LoadRepoData(
                        repo_rows, star_rows, specs, i + 1,
                        Append(repo_data,
                               [owner |-> specs[i].owner,
                                name |-> specs[i].name,
                                daily_counts |->
                                   OrderByDate(get_daily_star_count(
                                       star_rows, repo.value.id))]))
            : repo \in get_repository_by_name(repo_rows, specs[i].owner,
                                              specs[i].name) }

\* generate_multi_repo_chart when plotters draws: the chart, given by the
\* data it plots
generate_multi_repo_chart(data) == [svg |-> "chart", plots |-> data]

\* the 200 response: an empty SVG, the one SVG, or a JSON list of SVGs
ChartsResponse(chart_responses) ==
    IF chart_responses = << >>
    THEN [kind |-> "Chart", status |-> 200,
          content_type |-> "image/svg+xml",
          body |-> [svg |-> "No data available"]]
    ELSE IF Len(chart_responses) = 1
    THEN [kind |-> "Chart", status |-> 200,
          content_type |-> "image/svg+xml",
          body |-> chart_responses[1].svg_content]
    ELSE [kind |-> "Chart", status |-> 200,
          content_type |-> "application/json",
          body |-> [charts |-> chart_responses]]

\* POST /github/repo_stars/read_daily_graph
read_daily_graph_handler(input) ==
    /\ IF input.repositories = << >>
       THEN response' = ErrorResponse(
                "InvalidRequest", 400,
                "Invalid request: At least one repository must be specified")
       ELSE IF Len(input.repositories) > MaxRepositoriesPerRequest
       THEN response' = ErrorResponse(
                "InvalidRequest", 400,
                "Invalid request: Maximum 10 repositories allowed per request")
       ELSE LET parsed == parse_metric_types(input.metric_types)
            IN IF ~parsed.ok
               THEN response' = ErrorResponse(
                        "InvalidRequest", 400,
                        "Invalid request: " \o parsed.err)
               ELSE \E o \in PoolGetOutcomes :
                  IF o = "r2d2"
                  THEN response' = ErrorResponse("GetConnectionFromPool",
                                                 500, "r2d2")
                  ELSE \E loaded \in LoadRepoData(repositories, stars,
                                                  input.repositories, 1,
                                                  << >>) :
                     IF ~loaded.ok
                     THEN response' = loaded.response
                     ELSE \E called \in { process_multi_repo_data(
                                  loaded.repo_data, parsed.value,
                                  input.relative_x_axis) } :
                          LET processed == called.value
                          IN IF ~called.returns
                             THEN response' = NeverAnswered
                             ELSE IF ~processed.ok
                             THEN response' = ErrorResponse(
                                      "DataProcessing", 500,
                                      "Data processing failed: "
                                      \o processed.err)
                             ELSE \E drawn \in BOOLEAN :
                                IF ~drawn /\ processed.value # << >>
                                THEN response' = ErrorResponse(
                                         "ChartGeneration", 500,
                                         "Chart generation failed: plotters")
                                ELSE response' = ChartsResponse(
                                   [m \in 1..Len(processed.value) |->
                                      [metric_type |->
                                          CASE processed.value[m].metric_type
                                                  = "Position" -> "position"
                                            [] processed.value[m].metric_type
                                                  = "Speed" -> "speed"
                                            [] processed.value[m].metric_type
                                                  = "Acceleration" ->
                                                     "acceleration",
                                       svg_content |->
                                          generate_multi_repo_chart(
                                              processed.value[m])]])
    /\ UNCHANGED << tick, clock, tracker, task, repositories, stars,
                    trace, webhooks >>

\* the row of a repository a sync has stored
StoredRepository(name) ==
    [id |-> IF name = "n1" THEN 1 ELSE 2, owner |-> "o1", name |-> name]

\* the last two days a NaiveDate can hold
LastDays == (NaiveDate_MAX - 1)..NaiveDate_MAX

\* the star rows of one repository that was given counts[d] stars on day d
StoredStarsOf(name, counts) ==
    UNION { { [repository_id |-> StoredRepository(name).id,
               stargazer |-> d * MaxCount + k,
               starred_at |-> d * DayLen + ((k - 1) % DayLen),
               fetched_at |-> d * DayLen + ((k - 1) % DayLen)]
              : k \in 1..counts[d] }
            : d \in DOMAIN counts }

\* the star rows of repositories that were given counts[name][d] stars on
\* day d, each fetched the instant it was given
StoredStars(counts) ==
    UNION { StoredStarsOf(name, counts[name]) : name \in DOMAIN counts }

\* the stars per day a stored repository may have been given.  For "n1":
\* any counts on the days 0..MaxDay, or any counts on the last two days a
\* NaiveDate can hold (the upstream's starredAt is stored as it is
\* reported).  For "n2", the repository it is compared with: one star a
\* day from some day on, or none at all.
StoredDailyCounts(name) ==
    IF name = "n1"
    THEN [Days -> 0..MaxCount] \cup [LastDays -> 0..MaxCount]
    ELSE { [d \in Days |-> IF d >= from THEN 1 ELSE 0] :
              from \in 0..(MaxDay + 1) }

\* a service that starts on tables earlier runs have filled: no job yet,
\* any of the repositories stored, each with any of its daily counts
InitGraph ==
    /\ tracker = << >>
    /\ task = [j \in JobIds |-> NoTask]
    /\ trace = [j \in JobIds |-> << >>]
    /\ webhooks = [j \in JobIds |-> NoWebhook]
    /\ response = NoResponse
    /\ clock = 0
    /\ tick = 0
    /\ \E present \in SUBSET Names :
          /\ repositories = { StoredRepository(n) : n \in present }
          /\ \E counts \in
                   [present -> UNION { StoredDailyCounts(n) : n \in Names }] :
                /\ \A n \in present : counts[n] \in StoredDailyCounts(n)
                /\ stars = StoredStars(counts)

\* one analytics request on the stored tables.  The handler reads the
\* tables alone and writes nothing but its response, so the response to a
\* request does not depend on the requests served before it.
NextGraph ==
    /\ response = NoResponse
    /\ \E input \in GraphRequests : read_daily_graph_handler(input)

SpecGraph == InitGraph /\ [][NextGraph]_vars

(***************************************************************************)
(* Properties.                                                             *)
(***************************************************************************)
Terminal(j) ==
    j \in DOMAIN tracker /\ tracker[j].status \in {"Completed", "Failed"}

HasWebhook(j) == task[j].q.some /\ task[j].q.value.webhook_url.some

\* the status changes the state machine allows
AllowedTransitions ==
    { <<"Pending", "Running">>, <<"Running", "Completed">>,
      <<"Running", "Failed">> }

\* C1: a job's status only ever follows Pending -> Running -> Completed or
\* Pending -> Running -> Failed: a record enters the registry as Pending,
\* is never removed, and every step either keeps its status or takes one
\* of the three allowed transitions.
C1_StatusStateMachine ==
    [][\A j \in JobIds :
         /\ j \in DOMAIN tracker => j \in DOMAIN tracker'
         /\ (j \notin DOMAIN tracker /\ j \in DOMAIN tracker')
               => tracker'[j].status = "Pending"
         /\ (j \in DOMAIN tracker /\ j \in DOMAIN tracker')
               => \/ tracker'[j].status = tracker[j].status
                  \/ << tracker[j].status, tracker'[j].status >>
                        \in AllowedTransitions]_vars

\* two jobs side by side, one Completed and one Failed
C1_Witness ==
    \E j, k \in DOMAIN tracker :
       tracker[j].status = "Completed" /\ tracker[k].status = "Failed"

\* C2: for a job created with a webhook URL the notification task exists
\* exactly when the job is terminal (it is spawned in the step that makes
\* the job terminal), it carries the terminal record, and it calls
\* send_webhook_notification at most once, exactly once when it has run.
C2_NotifiedOnceWithTerminalRecord ==
    \A j \in JobIds :
       HasWebhook(j) =>
          /\ webhooks[j].state # "none" <=> Terminal(j)
          /\ webhooks[j].state # "none" =>
                /\ webhooks[j].job_status = Some(tracker[j])
                /\ webhooks[j].url = task[j].q.value.webhook_url
          /\ webhooks[j].calls = IF webhooks[j].state \in WebhookOutcomes
                                 THEN 1 ELSE 0

\* a Failed job whose notification was sent, after progress was reported
C2_Witness ==
    \E j \in DOMAIN tracker :
       /\ HasWebhook(j)
       /\ tracker[j].status = "Failed"
       /\ tracker[j].progress.current_page > 0
       /\ webhooks[j].calls = 1

Query(j) == task[j].q.value

\* the events of one kind in a job's trace
Events(j, kind) == SelectSeq(trace[j], LAMBDA e : e.ev = kind)

\* the calls of a run: pool, fetch, insert_repository, persist
IsCall(e) == e.ev \in {"pool", "fetch", "insert_repository", "persist"}

\* every stargazer edge the upstream holds for a repository
AllEdges(owner, name) ==
    { UpstreamEdges(owner, name, p)[i] :
        << p, i >> \in { x \in (1..UpstreamPageCount(owner, name))
                               \X (1..(PageSize + 1)) :
                          x[2] <= Len(UpstreamEdges(owner, name, x[1])) } }

\* the daily counts of a repository whose every upstream edge is stored once
ExpectedDaily(owner, name) ==
    LET edges == AllEdges(owner, name)
        dates == { Date(e.starred_at) : e \in edges }
    IN [d \in dates |->
           Cardinality({ e \in edges : Date(e.starred_at) = d })]

RECURSIVE SumCounts(_)
\* the sum of the counts of a (date -> count) function
SumCounts(f) ==
    IF DOMAIN f = {} THEN 0
    ELSE LET d == CHOOSE x \in DOMAIN f : TRUE
         IN f[d] + SumCounts([x \in DOMAIN f \ {d} |-> f[x]])

RECURSIVE EventsUpTo(_, _, _)
\* the number of events of pages 1..m of a repository
EventsUpTo(owner, name, m) ==
    IF m = 0 THEN 0
    ELSE Len(UpstreamEdges(owner, name, m)) + EventsUpTo(owner, name, m - 1)

\* job j2 was created when job j1 had finished: two runs in sequence
RanAfter(j2, j1) ==
    /\ Len(trace[j2]) > 0
    /\ j1 \in trace[j2][1].finished

\* the run of j met no fault of its environment: the pool gave a
\* connection, every fetch returned a page, the database connection held
NoEnvironmentFault(j) ==
    \A i \in 1..Len(trace[j]) :
       LET e == trace[j][i] IN
       IsCall(e) /\ ~e.ok => (e.ev = "insert_repository"
                               /\ e.err = "duplicate key")

\* C4: a second sync of the same (owner, name), run after a first one has
\* Completed and against the same upstream pages, completes too, and the
\* store's daily counts for the repository are what they were after the
\* first run.
C4_IdempotentIngestion ==
    \A j1, j2 \in DOMAIN tracker :
       (/\ j1 # j2
        /\ Query(j1).owner = Query(j2).owner
        /\ Query(j1).name = Query(j2).name
        /\ tracker[j1].status = "Completed"
        /\ RanAfter(j2, j1)
        /\ task[j2].pc = "done"
        /\ NoEnvironmentFault(j2))
       => /\ tracker[j2].status = "Completed"
          /\ \A r \in get_repository_by_name(repositories, Query(j2).owner,
                                             Query(j2).name) :
                /\ r.some
                /\ get_daily_star_count(stars, r.value.id)
                      = ExpectedDaily(Query(j2).owner, Query(j2).name)

\* C5: the progress reports of a job carry the page numbers 1, 2, 3, ... in
\* order, their totals never decrease, and the job's counters are those of
\* its last report (zero before the first).
C5_ProgressMonotone ==
    \A j \in DOMAIN tracker :
       LET r == Events(j, "report") IN
       /\ \A i \in 1..Len(r) :
             /\ r[i].page = i
             /\ i > 1 => r[i].total >= r[i - 1].total
       /\ tracker[j].progress.current_page = Len(r)
       /\ tracker[j].progress.total_stars_processed
             = IF Len(r) = 0 THEN 0 ELSE r[Len(r)].total

\* a job with two reports, the second with a larger total
C5_Witness ==
    \E j \in DOMAIN tracker :
       LET r == Events(j, "report") IN
       Len(r) >= 2 /\ r[2].total > r[1].total

\* the run of j fetched and persisted pages 1..N of its repository, N the
\* page whose has_next_page is false, and no call of it failed
TookAllPages(j) ==
    LET N == UpstreamPageCount(Query(j).owner, Query(j).name)
        f == Events(j, "fetch")
        u == Events(j, "persist")
    IN /\ Len(f) = N /\ \A i \in 1..N : f[i].page = i /\ f[i].ok
       /\ Len(u) = N /\ \A i \in 1..N : u[i].page = i /\ u[i].ok
       /\ \A i \in 1..Len(trace[j]) : IsCall(trace[j][i]) => trace[j][i].ok

\* C6: a Completed job's run fetched and persisted every upstream page up
\* to the one with has_next_page false, with no failed call; and a run that
\* did so and has finished is Completed.
C6_CompletedIffAllPages ==
    \A j \in DOMAIN tracker :
       /\ tracker[j].status = "Completed" => TookAllPages(j)
       /\ (task[j].pc = "done" /\ TookAllPages(j))
             => tracker[j].status = "Completed"

\* a Completed job of the multi-page repository
C6_Witness ==
    \E j \in DOMAIN tracker :
       /\ tracker[j].status = "Completed"
       /\ Len(Events(j, "persist")) = NumPages
       /\ NumPages > 1

\* C7: a Completed job's page counter is the number of upstream pages, its
\* event counter the number of upstream events, and the store's daily
\* counts for the repository are one count per upstream event: they sum to
\* the event counter.
C7_CompletedCounters ==
    \A j \in DOMAIN tracker :
       tracker[j].status = "Completed" =>
          LET owner == Query(j).owner
              name == Query(j).name
              N == UpstreamPageCount(owner, name)
          IN /\ tracker[j].progress.current_page = N
             /\ tracker[j].progress.total_stars_processed
                   = EventsUpTo(owner, name, N)
             /\ \A r \in get_repository_by_name(repositories, owner, name) :
                   /\ r.some
                   /\ get_daily_star_count(stars, r.value.id)
                         = ExpectedDaily(owner, name)
                   /\ SumCounts(get_daily_star_count(stars, r.value.id))
                         = tracker[j].progress.total_stars_processed

\* a Completed job with more than one page and a date holding two events
C7_Witness ==
    \E j \in DOMAIN tracker :
       /\ tracker[j].status = "Completed"
       /\ tracker[j].progress.current_page = NumPages
       /\ tracker[j].progress.total_stars_processed
             = (NumPages - 1) * PageSize + 1
       /\ NumPages > 1

\* C8: a finished run that returned an error leaves its job Failed with the
\* error's description; and in the registry and in every polled snapshot
\* the error field is set exactly when the status is Failed.
C8_ErrorIffFailed ==
    /\ \A j \in DOMAIN tracker :
          /\ tracker[j].error.some <=> tracker[j].status = "Failed"
          /\ (task[j].pc = "done" /\ ~task[j].result.value.ok)
                => /\ tracker[j].status = "Failed"
                   /\ tracker[j].error = Some(task[j].result.value.err)
          /\ (task[j].pc = "done"
                /\ \E i \in 1..Len(trace[j]) :
                      IsCall(trace[j][i]) /\ ~trace[j][i].ok)
                => tracker[j].status = "Failed"
    /\ response.kind = "Ok"
          => (response.job.error.some <=> response.job.status = "Failed")

\* a poll answered with a Failed job whose star persistence failed
C8_Witness ==
    /\ response.kind = "Ok"
    /\ response.job.status = "Failed"
    /\ response.job.error = Some("UpsertStars: InsertStarsBatch: diesel")

\* C9: after the first failed call of a run the run makes no further call,
\* and no cursor is fetched twice in one run.
C9_AbortWithoutRetry ==
    \A j \in JobIds :
       /\ \A i, k \in 1..Len(trace[j]) :
             (i < k /\ IsCall(trace[j][i]) /\ ~trace[j][i].ok)
                => ~IsCall(trace[j][k])
       /\ LET f == Events(j, "fetch") IN
          \A i, k \in 1..Len(f) : i # k => f[i].cursor # f[k].cursor

\* a finished run whose second fetch failed
C9_Witness ==
    \E j \in DOMAIN tracker :
       LET f == Events(j, "fetch") IN
       /\ task[j].pc = "done"
       /\ Len(f) = 2
       /\ ~f[2].ok

\* the pages whose batch the run of j persisted
PersistedPages(j) ==
    LET u == Events(j, "persist") IN
    { u[i].page : i \in { i \in 1..Len(u) : u[i].ok } }

\* C10: every event of a page a run persisted stays in the store, whatever
\* happens later; and a Failed job's counters are those of the pages
\* persisted before the failure: k-1 pages and their number of events.
C10_PartialIngestionKept ==
    \A j \in DOMAIN tracker :
       LET owner == Query(j).owner
           name == Query(j).name
           m == Cardinality(PersistedPages(j))
       IN /\ \A p \in PersistedPages(j) :
                \A i \in 1..Len(UpstreamEdges(owner, name, p)) :
                   \E row \in stars :
                      /\ row.repository_id = NewRepositoryId(j)
                      /\ row.stargazer
                            = UpstreamEdges(owner, name, p)[i].node.login
                      /\ row.starred_at
                            = UpstreamEdges(owner, name, p)[i].starred_at
          /\ tracker[j].status = "Failed" =>
                /\ PersistedPages(j) = 1..m
                /\ tracker[j].progress.current_page = m
                /\ tracker[j].progress.total_stars_processed
                      = EventsUpTo(owner, name, m)

\* a job Failed at its second page with the first page's events stored
C10_Witness ==
    \E j \in DOMAIN tracker :
       /\ tracker[j].status = "Failed"
       /\ PersistedPages(j) = {1}
       /\ tracker[j].progress.total_stars_processed = PageSize
       /\ Cardinality({ row \in stars :
                          row.repository_id = NewRepositoryId(j) }) = PageSize

\* the fetch, persist and report events of a job, in the order they happened
PageEvents(j) ==
    SelectSeq(trace[j], LAMBDA e : e.ev \in {"fetch", "persist", "report"})

\* the kinds of event of one page, in the order the claim gives them
PageEventOrder == << "fetch", "persist", "report" >>

\* C11: within one run the fetch, persist and report events come in the
\* order fetch(1), persist(1), report(1), fetch(2), persist(2), report(2),
\* ...: each page is fetched, then persisted, then reported, and an event is
\* followed by another only if it succeeded, so fetch(n+1) comes after a
\* successful persist(n) and the report of page n.
C11_PerPageOrdering ==
    \A j \in JobIds :
       LET P == PageEvents(j) IN
       \A i \in 1..Len(P) :
          /\ P[i].ev = PageEventOrder[((i - 1) % 3) + 1]
          /\ P[i].page = ((i - 1) \div 3) + 1
          /\ (i < Len(P) /\ P[i].ev # "report") => P[i].ok

\* a run that fetched, persisted and reported two pages
C11_Witness ==
    \E j \in JobIds :
       /\ Len(PageEvents(j)) = 6
       /\ PageEvents(j)[6].ev = "report"
       /\ PageEvents(j)[6].page = 2

\* C12: the first fetch of a run carries cursor None; every later fetch
\* follows a fetch that returned a page with has_next_page true and carries
\* exactly that page's end_cursor, so no fetch follows a failed fetch or a
\* page with has_next_page false; the page info a fetch returned is the one
\* the upstream serves for its cursor.
C12_CursorChaining ==
    \A j \in JobIds :
       LET f == Events(j, "fetch") IN
       \A i \in 1..Len(f) :
          /\ i = 1 => f[i].cursor = None
          /\ i > 1 => /\ f[i - 1].ok
                      /\ f[i - 1].page_info.has_next_page
                      /\ f[i].cursor = f[i - 1].page_info.end_cursor
          /\ f[i].ok => f[i].page_info
                           = UpstreamPage(Query(j).owner, Query(j).name,
                                          f[i].cursor).page_info

\* a finished run of two fetches, the second with the first page's cursor,
\* that stopped at the page with has_next_page false
C12_Witness ==
    \E j \in JobIds :
       LET f == Events(j, "fetch") IN
       /\ task[j].pc = "done"
       /\ Len(f) = 2
       /\ f[1].cursor = None
       /\ f[2].cursor = f[1].page_info.end_cursor
       /\ f[2].cursor # None
       /\ f[2].ok /\ ~f[2].page_info.has_next_page

\* the fetch, report and delay events of a job, in the order they happened
PacedEvents(j) ==
    SelectSeq(trace[j], LAMBDA e : e.ev \in {"fetch", "report", "delay"})

\* C13: in every run the fetch of a page n+1 comes right after one delay
\* that follows the report of page n; a delay comes only after the report
\* of a page, so never before the first fetch; and no delay follows the
\* page whose has_next_page is false.
C13_DelayBetweenPages ==
    \A j \in JobIds :
       LET D == PacedEvents(j) IN
       \A i \in 1..Len(D) :
          /\ (D[i].ev = "fetch" /\ D[i].page > 1)
                => /\ i > 2
                   /\ D[i - 1].ev = "delay"
                   /\ D[i - 2].ev = "report"
          /\ D[i].ev = "delay"
                => /\ i > 1
                   /\ D[i - 1].ev = "report"
                   /\ \E k \in 1..(i - 1) :
                         /\ D[k].ev = "fetch"
                         /\ D[k].page = D[i].page
                         /\ D[k].page_info.has_next_page

\* C14: a step that answers a create request adds to the registry, under
\* the id it returns, a record in Pending with zero pages, zero events and
\* no error, leaves the sync to a task that has not yet taken a step (no
\* fetch was issued for the job) and changes no other job's task or
\* history; every step that adds a record answers with its id; and whenever
\* a create request has just been answered its id is in the registry.
C14_CreateReturnsPendingJob ==
    [][/\ (response'.kind = "Accepted" /\ response' # response)
            => LET id == response'.job_id IN
               /\ id \notin DOMAIN tracker
               /\ id \in DOMAIN tracker'
               /\ tracker'[id].id = id
               /\ tracker'[id].status = "Pending"
               /\ tracker'[id].progress.current_page = 0
               /\ tracker'[id].progress.total_stars_processed = 0
               /\ tracker'[id].error = None
               /\ task'[id].pc = "start"
               /\ SelectSeq(trace'[id], LAMBDA e : e.ev = "fetch") = << >>
               /\ \A k \in JobIds \ {id} :
                     task'[k] = task[k] /\ trace'[k] = trace[k]
       /\ DOMAIN tracker' # DOMAIN tracker
            => /\ response'.kind = "Accepted"
               /\ DOMAIN tracker' = DOMAIN tracker \cup {response'.job_id}
       /\ response'.kind = "Accepted"
            => response'.job_id \in DOMAIN tracker']_vars

\* a create request answered while another job's run is between two pages
C14_Witness ==
    /\ response.kind = "Accepted"
    /\ tracker[response.job_id].status = "Pending"
    /\ \E j \in DOMAIN tracker :
          /\ j # response.job_id
          /\ task[j].pc = "fetch_next"
          /\ tracker[j].progress.current_page = 1

\* C15 as stated: a job that is Running, or has left Running for Completed
\* or Failed, has issued the first page fetch of its run.
C15_RunningOnlyAfterFirstFetch ==
    \A j \in DOMAIN tracker :
       tracker[j].status \in {"Running", "Completed", "Failed"}
          => Len(Events(j, "fetch")) >= 1

\* C15 as amended: a job is Pending exactly until its run takes its first
\* step, which marks it Running before the connection is acquired and
\* before any fetch, so a Pending job has made no call; a job leaves
\* Running for Completed only after its first page fetch was issued, and
\* leaves it without any fetch only for Failed, with the error of the
\* connection pool.
C15_RunningFromRunStart ==
    \A j \in DOMAIN tracker :
       /\ tracker[j].status = "Pending" <=> task[j].pc = "start"
       /\ tracker[j].status = "Pending"
             => \A i \in 1..Len(trace[j]) : ~IsCall(trace[j][i])
       /\ tracker[j].status = "Completed" => Len(Events(j, "fetch")) >= 1
       /\ (Terminal(j) /\ Len(Events(j, "fetch")) = 0)
             => /\ tracker[j].status = "Failed"
                /\ tracker[j].error = Some("GetConnectionFromPool: r2d2")

\* a job that went from Running to Failed without issuing a fetch, beside a
\* job that is Running and has not fetched yet
C15_Witness ==
    \E j, k \in DOMAIN tracker :
       /\ tracker[j].status = "Failed"
       /\ Len(Events(j, "fetch")) = 0
       /\ tracker[k].status = "Running"
       /\ Len(Events(k, "fetch")) = 0

\* C16: under fair scheduling of the tasks every created job eventually
\* is Completed or Failed, whatever the upstream does, a fetch that is
\* never answered included.
C16_EveryJobTerminates ==
    \A j \in JobIds : (j \in DOMAIN tracker) ~> Terminal(j)

\* the answers the store gave to the runs that asked it for the repository
\* of (owner, name): the insert_repository events the connection survived
Resolutions(owner, name) ==
    { e \in UNION { { trace[j][i] : i \in 1..Len(trace[j]) } :
                      j \in { k \in JobIds : /\ task[k].q.some
                                              /\ Query(k).owner = owner
                                              /\ Query(k).name = name } } :
        e.ev = "insert_repository" /\ e.err # "connection lost" }

\* C17: the store holds at most one repository record per (owner, name),
\* and every run that asked the store for the repository of a pair got an
\* identifier: the identifier of that one record, the same for every run.
C17_RepositoryIdentity ==
    /\ \A r1, r2 \in repositories :
          (r1.owner = r2.owner /\ r1.name = r2.name) => r1 = r2
    /\ \A owner \in Owners, name \in Names :
          \A e \in Resolutions(owner, name) :
             /\ e.id.some
             /\ \E r \in repositories :
                   r.owner = owner /\ r.name = name /\ r.id = e.id.value

UpstreamIsPast ==
    \A j \in JobIds :
       task[j].pc \in {"update_found", "upsert_next"}
          => \A i \in 1..Len(task[j].locals.page.stars) :
                task[j].locals.page.stars[i].starred_at <= clock

\* C19: every star row of the store has starred_at <= fetched_at, the rows
\* of every page of a multi-page sync included.
C19_StarredBeforeObserved ==
    \A s \in stars : s.starred_at <= s.fetched_at

\* the description of a job whose first page named no repository
NotFoundError(j) ==
    "FetchChunkOfStarsFromRepo: RepositoryNotFound: "
       \o Query(j).owner \o "/" \o Query(j).name

\* C20: when the upstream answers the first fetch of a run with no
\* repository, the fetch fails with RepositoryNotFound, the run makes no
\* further call and stores neither a repository record nor a star row, and
\* its job ends Failed with that description; and every repository insert
\* of a run comes after a successful fetch of its first page.
C20_RepositoryNotFound ==
    \A j \in JobIds :
       LET f == Events(j, "fetch") IN
       /\ (Len(f) >= 1 /\ f[1].reply = "repository_null")
             => /\ ~f[1].ok
                /\ f[1].err = "RepositoryNotFound: " \o Query(j).owner
                                  \o "/" \o Query(j).name
                /\ Len(f) = 1
                /\ Events(j, "insert_repository") = << >>
                /\ Events(j, "persist") = << >>
                /\ ~\E r \in repositories : r.id = NewRepositoryId(j)
                /\ ~\E s \in stars : s.repository_id = NewRepositoryId(j)
                /\ task[j].pc = "done"
                      => /\ tracker[j].status = "Failed"
                         /\ tracker[j].error = Some(NotFoundError(j))
       /\ \A i \in 1..Len(trace[j]) :
             trace[j][i].ev = "insert_repository"
                => \E k \in 1..(i - 1) :
                      /\ trace[j][k].ev = "fetch"
                      /\ trace[j][k].page = 1
                      /\ trace[j][k].ok
       /\ (\E r \in repositories : r.id = NewRepositoryId(j))
             => Len(f) >= 1 /\ f[1].ok

\* a job Failed as RepositoryNotFound, nothing stored for it, beside a job
\* whose repository record was created
C20_Witness ==
    \E j, k \in DOMAIN tracker :
       /\ tracker[j].status = "Failed"
       /\ tracker[j].error = Some(NotFoundError(j))
       /\ Events(j, "fetch")[1].reply = "repository_null"
       /\ ~\E r \in repositories : r.id = NewRepositoryId(j)
       /\ \E r \in repositories : r.id = NewRepositoryId(k)

\* the cursor the next fetch of a task carries
NextCursor(j) ==
    IF task[j].pc = "fetch_first" THEN None ELSE task[j].locals.cursor

\* StatusCode::is_success: 2xx
IsSuccess(status) == status \in 200..299

\* C21: whenever a run is about to fetch a page, every answer of the
\* upstream that carries a non-success status makes the fetch fail, whatever
\* its body: it is not accepted as a page (so nothing of it is persisted),
\* it is not reported as a decode error, and the error is UpstreamRejected
\* with the status.
C21_NonSuccessStatusRejected ==
    \A j \in JobIds :
       task[j].pc \in {"fetch_first", "fetch_next"} =>
          \A r \in fetch_repo_stargazers(Query(j).owner, Query(j).name,
                                         NextCursor(j)) :
             (r.ok /\ ~IsSuccess(r.status)) =>
                LET res == fetch_chunk_of_stars_from_repo(
                               Query(j).owner, Query(j).name, r)
                IN /\ ~res.ok
                   /\ res.err # "ResponseBodyDeserialization: serde_json"
                   /\ res.err = "UpstreamRejected: " \o ToString(r.status)

\* the outcomes of a delivery that did not succeed
FailedDeliveries == {"non_success_status", "send_error"}

\* C22: the step in which a delivery fails or is answered with a
\* non-success status is the job's first and only delivery attempt and
\* changes neither the registry, nor any task, nor the store, nor any run's
\* history; and after it no step delivers again, re-runs the job's sync or
\* changes the job's record.
C22_FailedDeliveryChangesNothing ==
    [][\A j \in JobIds :
         /\ (webhooks[j].state = "spawned"
               /\ webhooks'[j].state \in FailedDeliveries)
              => /\ webhooks'[j].calls = 1
                 /\ tracker' = tracker
                 /\ task' = task
                 /\ repositories' = repositories
                 /\ stars' = stars
                 /\ trace' = trace
         /\ webhooks[j].state # "spawned" => webhooks'[j].calls = webhooks[j].calls
         /\ webhooks[j].state \in FailedDeliveries
              => /\ webhooks'[j] = webhooks[j]
                 /\ tracker'[j] = tracker[j]
                 /\ task'[j] = task[j]
                 /\ trace'[j] = trace[j]]_vars

\* a Completed job whose one delivery failed, its record still the one sent
C22_Witness ==
    \E j \in DOMAIN tracker :
       /\ webhooks[j].state = "send_error"
       /\ webhooks[j].calls = 1
       /\ tracker[j].status = "Completed"
       /\ webhooks[j].job_status = Some(tracker[j])
       /\ task[j].pc = "done"

\* C23: for a job created without a webhook URL no notification task is
\* ever spawned and send_webhook_notification is never called, at any point
\* of the execution, whether the job completes or fails.
C23_NoEndpointNoNotification ==
    \A j \in JobIds :
       (task[j].q.some /\ ~task[j].q.value.webhook_url.some)
          => webhooks[j] = NoWebhook

\* two finished jobs without a webhook URL, one Completed and one Failed
C23_Witness ==
    \E j, k \in DOMAIN tracker :
       /\ ~HasWebhook(j) /\ ~HasWebhook(k)
       /\ task[j].pc = "done" /\ task[k].pc = "done"
       /\ tracker[j].status = "Completed"
       /\ tracker[k].status = "Failed"

\* C24: a step that answers a status poll changes nothing but the answer:
\* the registry, the tasks, the store and the notifications are as before;
\* the answer for an id of the registry is that id's record as it is, and
\* the answer for any other id is NotFound.  Whenever a poll has just been
\* answered with a record, the registry still holds that record.
C24_PollReadsOnly ==
    [][response'.kind \in {"Ok", "NotFound"}
         => /\ UNCHANGED << tick, clock, tracker, task, repositories,
                            stars, trace, webhooks >>
            /\ response'.kind = "Ok"
                  => /\ response'.job.id \in DOMAIN tracker
                     /\ response'.job = tracker[response'.job.id]
                     /\ response'.job = tracker'[response'.job.id]
            /\ response'.kind = "NotFound"
                  => response'.job_id \notin DOMAIN tracker]_vars

\* a poll answered with the record of a job between two pages, while
\* another id is still unknown to the registry
C24_Witness ==
    /\ response.kind = "Ok"
    /\ response.job.status = "Running"
    /\ response.job.progress.current_page = 1
    /\ response.job = tracker[response.job.id]
    /\ DOMAIN tracker # JobIds

\* C25: with a clock that is later at every reading, every step that
\* changes a job's record sets its updated_at to the time of the step,
\* later than the value before; updated_at never decreases, created_at
\* never changes and is never later than updated_at; a new record has both
\* equal to the time of its creation.
C25_UpdatedAtFollowsEveryChange ==
    [][\A j \in DOMAIN tracker' :
         IF j \in DOMAIN tracker
         THEN /\ tracker'[j].updated_at >= tracker[j].updated_at
              /\ tracker'[j].created_at = tracker[j].created_at
              /\ tracker'[j].created_at <= tracker'[j].updated_at
              /\ tracker'[j] # tracker[j]
                    => /\ tracker'[j].updated_at > tracker[j].updated_at
                       /\ tracker'[j].updated_at = clock'
                       /\ clock' > clock
         ELSE /\ tracker'[j].created_at = clock'
              /\ tracker'[j].updated_at = clock'
              /\ clock' > clock]_vars

\* a Completed job of two pages: its record was stamped at the start, after
\* the first fetch, at both reports and at the end
C25_Witness ==
    \E j \in DOMAIN tracker :
       /\ tracker[j].status = "Completed"
       /\ tracker[j].progress.current_page = 2
       /\ tracker[j].updated_at >= tracker[j].created_at + 5
       /\ tracker[j].updated_at = clock

\* C26: a step that changes the record of a job already in the registry is
\* a step of that job's own task and of no other task, and it changes no
\* other job's record; a job has one task, spawned in the step that adds
\* the job to the registry and never spawned again.
C26_OneWriterPerJob ==
    [][\A j \in JobIds :
         /\ (j \in DOMAIN tracker /\ tracker'[j] # tracker[j])
              => /\ task'[j] # task[j]
                 /\ \A k \in JobIds \ {j} :
                       /\ task'[k] = task[k]
                       /\ k \in DOMAIN tracker => tracker'[k] = tracker[k]
         /\ task'[j].pc = "start"
              => \/ task[j].pc = "start"
                 \/ /\ task[j].pc = "unspawned"
                    /\ j \notin DOMAIN tracker
                    /\ j \in DOMAIN tracker'
         /\ task'[j].pc = "unspawned" <=> j \notin DOMAIN tracker'
         /\ task'[j].q # task[j].q => task[j].pc = "unspawned"]_vars

\* two jobs in flight, both Running with their first page reported
C26_Witness ==
    \E j, k \in DOMAIN tracker :
       /\ j # k
       /\ tracker[j].status = "Running"
       /\ tracker[k].status = "Running"
       /\ tracker[j].progress.current_page = 1
       /\ tracker[k].progress.current_page = 1

\* the ProcessedMultiRepoData that the charts of a response plot
Plotted(resp) ==
    IF resp.kind # "Chart"
    THEN << >>
    ELSE IF resp.content_type = "application/json"
    THEN [m \in 1..Len(resp.body.charts) |->
             resp.body.charts[m].svg_content.plots]
    ELSE IF "plots" \in DOMAIN resp.body
    THEN << resp.body.plots >>
    ELSE << >>

\* the series of one kind that the response plots, one per repository
PlottedSeries(metric_type) ==
    { <<m, i>> \in (1..Len(Plotted(response))) \X (1..MaxRequested) :
         /\ Plotted(response)[m].metric_type = metric_type
         /\ i <= Len(Plotted(response)[m].repositories) }

SeriesOf(mi) == Plotted(response)[mi[1]].repositories[mi[2]]

\* the stored daily counts of the repository a series belongs to: the
\* number of its stars starred on each day that has one
StoredCounts(series) ==
    LET row == CHOOSE r \in repositories :
                  r.owner = series.owner /\ r.name = series.name
        mine == { s \in stars : s.repository_id = row.id }
    IN [d \in { s.starred_at \div DayLen : s \in mine } |->
          Cardinality({ s \in mine : s.starred_at \div DayLen = d })]

\* C27: every Speed series derived from the stored daily counts of a
\* repository with stars has exactly one point for every calendar day from
\* its first to its last day with a star, in day order, whose value is the
\* day's count, 0 on a day without stars
C27_SpeedGapFilling ==
    \A mi \in PlottedSeries("Speed") :
       LET counts == StoredCounts(SeriesOf(mi))
           points == SeriesOf(mi).data_points
       IN DOMAIN counts # {} =>
             /\ Len(points) = Max(DOMAIN counts) - Min(DOMAIN counts) + 1
             /\ \A k \in 1..Len(points) :
                   /\ points[k].date = Min(DOMAIN counts) + k - 1
                   /\ points[k].value =
                         IF points[k].date \in DOMAIN counts
                         THEN counts[points[k].date] ELSE 0

\* a Speed series over two days with stars and the two empty days between
C27_Witness ==
    \E mi \in PlottedSeries("Speed") :
       /\ DOMAIN StoredCounts(SeriesOf(mi)) = {0, 3}
       /\ Len(SeriesOf(mi).data_points) = 4
       /\ SeriesOf(mi).data_points[2].value = 0
       /\ SeriesOf(mi).data_points[3].value = 0


\* the stars a repository was given on a day, 0 on a day without stars
CountOn(counts, d) == IF d \in DOMAIN counts THEN counts[d] ELSE 0

\* C28: every Acceleration series derived from the stored daily counts of
\* a repository with stars has one point per calendar day from its first to
\* its last day with a star; the first value is 0, and the value at every
\* later day d is count(d) minus count(d-1), a day without stars counting
\* 0.  A single day gives the single value 0.
C28_Acceleration ==
    \A mi \in PlottedSeries("Acceleration") :
       LET counts == StoredCounts(SeriesOf(mi))
           points == SeriesOf(mi).data_points
       IN DOMAIN counts # {} =>
             /\ Len(points) = Max(DOMAIN counts) - Min(DOMAIN counts) + 1
             /\ points[1].value = 0
             /\ \A k \in 1..Len(points) :
                   points[k].date = Min(DOMAIN counts) + k - 1
             /\ \A k \in 2..Len(points) :
                   points[k].value =
                       CountOn(counts, points[k].date)
                       - CountOn(counts, points[k].date - 1)

\* an Acceleration series with a rise and a fall, on a first day with stars
C28_Witness ==
    \E mi \in PlottedSeries("Acceleration") :
       LET points == SeriesOf(mi).data_points
       IN /\ Len(points) >= 3
          /\ CountOn(StoredCounts(SeriesOf(mi)), points[1].date) > 0
          /\ points[1].value = 0
          /\ \E k \in 2..Len(points) : points[k].value > 0
          /\ \E k \in 2..Len(points) : points[k].value < 0

\* C29: the Position series of a repository has exactly one point per day
\* with a star, in day order, whose value is the number of stars given up
\* to and including that day; it has no point for a day without stars
C29_Position ==
    \A mi \in PlottedSeries("Position") :
       LET counts == StoredCounts(SeriesOf(mi))
           points == SeriesOf(mi).data_points
       IN /\ Len(points) = Cardinality(DOMAIN counts)
          /\ \A k \in 1..Len(points) :
                /\ points[k].date \in DOMAIN counts
                /\ \A l \in 1..(k - 1) : points[l].date < points[k].date
                /\ points[k].value =
                      SumCounts([d \in { x \in DOMAIN counts :
                                            x <= points[k].date } |->
                                    counts[d]])

\* a Position series over two days with stars and an empty day between
C29_Witness ==
    \E mi \in PlottedSeries("Position") :
       LET counts == StoredCounts(SeriesOf(mi))
           points == SeriesOf(mi).data_points
       IN /\ DOMAIN counts = {0, 2}
          /\ Len(points) = 2
          /\ points[2].date = 2
          /\ points[2].value = counts[0] + counts[2]

\* the first day with a star over all repositories a chart plots
BatchStart(data) ==
    Min(UNION { DOMAIN StoredCounts(data.repositories[i]) :
                   i \in 1..Len(data.repositories) })

\* C30: in relative mode every point of every repository of the request
\* reports the days from the earliest day with a star over all the
\* repositories of the request to its own date
C30_RelativeToBatchStart ==
    \A m \in 1..Len(Plotted(response)) :
       LET data == Plotted(response)[m]
       IN data.time_axis.kind = "Relative" =>
             \A i \in 1..Len(data.repositories) :
                \A k \in 1..Len(data.repositories[i].data_points) :
                   LET point == data.repositories[i].data_points[k]
                   IN /\ point.date \in
                           Min(DOMAIN StoredCounts(data.repositories[i]))
                           ..Max(DOMAIN StoredCounts(data.repositories[i]))
                      /\ point.relative_days =
                           Some(point.date - BatchStart(data))

\* a relative chart of two repositories, the first of which starts later
\* than the second and reports the days since the start of the second
C30_Witness ==
    \E m \in 1..Len(Plotted(response)) :
       LET data == Plotted(response)[m]
       IN /\ data.time_axis.kind = "Relative"
          /\ Len(data.repositories) = 2
          /\ data.repositories[1].data_points # << >>
          /\ data.repositories[2].data_points # << >>
          /\ data.repositories[2].data_points[1].relative_days = Some(0)
          /\ data.repositories[1].data_points[1].relative_days.value > 0


\* C36: gap-filling returns for every list of daily counts, the last
\* representable day included: no analytics request is left unanswered
C36_GapFillingTerminates == response # NeverAnswered

\* the request names stored repositories only, none of which has a star
NamesEmptyRepositories(input) ==
    /\ input.repositories # << >>
    /\ Len(input.repositories) <= MaxRepositoriesPerRequest
    /\ \A i \in 1..Len(input.repositories) :
          \E r \in repositories :
             /\ r.owner = input.repositories[i].owner
             /\ r.name = input.repositories[i].name
             /\ ~\E st \in stars : st.repository_id = r.id

\* the kinds of response to a fault of the pool, of a query or of plotters
FaultKinds ==
    {"GetConnectionFromPool", "GetRepositoryByName", "GetDailyStarCount",
     "ChartGeneration"}

\* C31: a request with valid metrics for stored repositories without stars,
\* in absolute or in relative mode, is answered, unless the pool, a query or
\* plotters fails, with a chart of an empty series per repository for every
\* requested metric, and not with an error
C31_EmptyInputIsNotAnError ==
    [][\A input \in GraphRequests :
          ( /\ read_daily_graph_handler(input)
            /\ NamesEmptyRepositories(input)
            /\ parse_metric_types(input.metric_types).ok
            /\ response'.kind \notin FaultKinds )
          => /\ response'.kind = "Chart"
             /\ Len(Plotted(response')) =
                   Len(parse_metric_types(input.metric_types).value)
             /\ \A m \in 1..Len(Plotted(response')) :
                   \A i \in 1..Len(Plotted(response')[m].repositories) :
                      Plotted(response')[m].repositories[i].data_points
                         = << >>]_vars

\* every series the response plots
AllPlottedSeries ==
    PlottedSeries("Position") \cup PlottedSeries("Speed")
    \cup PlottedSeries("Acceleration")

\* the dates of the points are strictly increasing
StrictlyIncreasing(points) ==
    \A k \in 2..Len(points) : points[k - 1].date < points[k].date

\* there is a point for every calendar day from the first to the last
Contiguous(points) ==
    \A k \in 2..Len(points) : points[k].date = points[k - 1].date + 1

\* C32: every derived series, of any of the three kinds, is ordered by
\* strictly increasing date and has a point for every calendar day between
\* its first and its last date
C32_EverySeriesContiguous ==
    \A mi \in AllPlottedSeries :
       /\ StrictlyIncreasing(SeriesOf(mi).data_points)
       /\ Contiguous(SeriesOf(mi).data_points)

\* C32, amended: every derived series is ordered by strictly increasing
\* date; a Speed or an Acceleration series has a point for every calendar
\* day between its first and its last date, and a Position series has its
\* points on the days with a star, and on no other day
C32_SpeedAndAccelerationContiguous ==
    /\ \A mi \in AllPlottedSeries :
          StrictlyIncreasing(SeriesOf(mi).data_points)
    /\ \A mi \in PlottedSeries("Speed") \cup PlottedSeries("Acceleration") :
          Contiguous(SeriesOf(mi).data_points)
    /\ \A mi \in PlottedSeries("Position") :
          { SeriesOf(mi).data_points[k].date :
              k \in 1..Len(SeriesOf(mi).data_points) }
          = DOMAIN StoredCounts(SeriesOf(mi))

\* the three series of a repository with stars on two days and none on the
\* two days between: Position has two points, the other two have four
C32_Witness ==
    /\ \E mi \in PlottedSeries("Position") :
          /\ DOMAIN StoredCounts(SeriesOf(mi)) = {0, 3}
          /\ Len(SeriesOf(mi).data_points) = 2
    /\ \E mi \in PlottedSeries("Speed") :
          /\ DOMAIN StoredCounts(SeriesOf(mi)) = {0, 3}
          /\ Len(SeriesOf(mi).data_points) = 4
    /\ \E mi \in PlottedSeries("Acceleration") :
          /\ DOMAIN StoredCounts(SeriesOf(mi)) = {0, 3}
          /\ Len(SeriesOf(mi).data_points) = 4

\* the request names no repository, too many, or a metric that is not one
\* of position, speed, acceleration
InvalidRequest(input) ==
    \/ input.repositories = << >>
    \/ Len(input.repositories) > MaxRepositoriesPerRequest
    \/ \E k \in 1..Len(input.metric_types) :
          to_lowercase(input.metric_types[k]) \notin
             {"position", "speed", "acceleration"}

\* C33: a request that names no repository, more than the maximum, or an
\* unrecognized metric is answered InvalidRequest whatever the pool and the
\* tables hold: it reaches no pool checkout, no query, no derivation and no
\* rendering, none of whose outcomes can be its response
C33_InvalidRequestRejectedFirst ==
    [][\A input \in GraphRequests :
          (InvalidRequest(input) /\ read_daily_graph_handler(input))
          => /\ response'.kind = "InvalidRequest"
             /\ response'.status = 400]_vars

\* a request rejected for its metric name on tables that hold stars
C33_Witness ==
    /\ response.kind = "InvalidRequest"
    /\ response.message =
          "Invalid request: Invalid metric type: 'velocity'. Valid types "
          \o "are: position, speed, acceleration"
    /\ stars # {}

\* the calls during which a task waits for the network, the database or
\* the timer
IOEvents == {"pool", "fetch", "insert_repository", "persist", "delay"}

\* the step made a call of job j that waits
DidIO(j) ==
    \E i \in (Len(trace[j]) + 1)..Len(trace'[j]) :
       trace'[j][i].ev \in IOEvents

\* the positions at which a task has returned, has not started, or waits
\* for an answer of the upstream that never comes
Stopped == {"unspawned", "done", "hung"}

\* whatever the tasks are doing, every poll can be served, a job can be
\* created while an id is left, and every task that has not stopped can
\* take its next step: nothing waits for the registry
RegistryFree ==
    /\ \A job_id \in JobIds : ENABLED job_status_handler(job_id)
    /\ DOMAIN tracker # JobIds =>
          \A input \in RepoQuery : ENABLED handler(input)
    /\ \A j \in JobIds : task[j].pc \notin Stopped => ENABLED TaskStep(j)

\* C34: the registry is locked for short critical sections only.  No step
\* of a sync task that fetches a page, calls the database or pauses writes
\* the registry, so the lock is not held over such a call; and in every
\* state a poll and a creation can be served and every running task can go
\* on, also while another job's fetch is in progress.
C34_ShortCriticalSections ==
    /\ []RegistryFree
    /\ [][\A j \in JobIds : DidIO(j) => UNCHANGED tracker]_vars

\* a poll answered, and a second job created, while the fetch of the first
\* job is in progress and never answered
C34_Witness ==
    /\ response.kind = "Ok"
    /\ \E j \in JobIds : task[j].pc = "hung"
    /\ \E k \in DOMAIN tracker :
          /\ task[k].pc \notin Stopped
          /\ \E i \in 1..Len(trace[k]) : trace[k][i].ev = "pool"

\* the number of events in the pages the run of j persisted
PersistedEvents(j) ==
    SumCounts([p \in PersistedPages(j) |->
                 Len(UpstreamEdges(Query(j).owner, Query(j).name, p))])

\* C35: in every state a job's current_page is at most the number of pages
\* its run has persisted, and its total_stars_processed at most the number
\* of events in those pages
C35_ProgressBehindPersistence ==
    \A j \in DOMAIN tracker :
       /\ tracker[j].progress.current_page
             <= Cardinality(PersistedPages(j))
       /\ tracker[j].progress.total_stars_processed <= PersistedEvents(j)

\* a job that has persisted a page more than it has reported, and one that
\* has reported every page and event it persisted
C35_Witness ==
    /\ \E j \in DOMAIN tracker :
          /\ tracker[j].progress.current_page = 1
          /\ Cardinality(PersistedPages(j)) = 2
          /\ tracker[j].progress.total_stars_processed < PersistedEvents(j)
    /\ \E j \in DOMAIN tracker :
          /\ tracker[j].progress.current_page = 1
          /\ Cardinality(PersistedPages(j)) = 1
          /\ tracker[j].progress.total_stars_processed = PersistedEvents(j)

RECURSIVE SumValues(_)
\* the sum of the values of a series
SumValues(points) ==
    IF points = << >> THEN 0
    ELSE points[1].value + SumValues(Tail(points))

\* a Position, a Speed and an Acceleration series that one response plots
\* for the same repository, which has stars
SeriesTriples ==
    { t \in PlottedSeries("Position") \X PlottedSeries("Speed")
            \X PlottedSeries("Acceleration") :
         /\ t[1][2] = t[2][2]
         /\ t[2][2] = t[3][2]
         /\ SeriesOf(t[1]).data_points # << >> }

\* C37: of the three series derived from the same daily counts, the Speed
\* values sum to the last Position value, and the Acceleration values sum
\* to the count of the last day minus the count of the first day
C37_SeriesConsistent ==
    \A t \in SeriesTriples :
       LET position == SeriesOf(t[1]).data_points
           speed == SeriesOf(t[2]).data_points
           acceleration == SeriesOf(t[3]).data_points
           counts == StoredCounts(SeriesOf(t[1]))
       IN /\ SumValues(speed) = position[Len(position)].value
          /\ SumValues(acceleration) =
                counts[Max(DOMAIN counts)] - counts[Min(DOMAIN counts)]

\* the three series of a repository whose stars came on two days, more of
\* them on the first, with two empty days between
C37_Witness ==
    \E t \in SeriesTriples :
       LET counts == StoredCounts(SeriesOf(t[1]))
       IN /\ DOMAIN counts = {0, 3}
          /\ counts[0] > counts[3]
          /\ Len(SeriesOf(t[2]).data_points) = 4
          /\ SumValues(SeriesOf(t[2]).data_points) = counts[0] + counts[3]
          /\ SumValues(SeriesOf(t[3]).data_points) < 0

\* the ids that create calls have returned
CreatedIds == { j \in JobIds : trace[j] # << >> }

\* C38: the registry only grows.  No step removes a job record, a create
\* call returns an id that no earlier create call returned and stores its
\* record, and a poll answers NotFound only for an id that no create call
\* has returned.
C38_RegistryOnlyGrows ==
    [][/\ DOMAIN tracker \subseteq DOMAIN tracker'
       /\ CreatedIds \subseteq DOMAIN tracker'
       /\ response'.kind = "Accepted"
             => /\ response'.job_id \notin CreatedIds
                /\ response'.job_id \notin DOMAIN tracker
                /\ response'.job_id \in DOMAIN tracker'
       /\ response'.kind = "NotFound"
             => response'.job_id \notin CreatedIds]_vars

\* every id taken by a create call, and a poll that finds the record of a
\* job that completed
C38_Witness ==
    /\ CreatedIds = JobIds
    /\ DOMAIN tracker = JobIds
    /\ response.kind = "Ok"
    /\ response.job.status = "Completed"
    /\ task[response.job.id].pc = "done"

====
